---- MODULE Spec2Model ----
(***************************************************************************)
(* Heading/outline detection (outline_core.py) and persona-driven section  *)
(* ranking (document_intelligence.py).                                     *)
(*                                                                         *)
(* Text is a TLA+ string; a character is a one-character string.  Scores   *)
(* of _score_line are kept in tenths (1.5 is 15), font sizes in            *)
(* thousandths of a point (17.996 is 17996), relevance scores in           *)
(* millionths (0.25 is 250000).  The glyph U+2022 is written "@", as TLA+     *)
(* strings are ASCII.                                                      *)
(***************************************************************************)
EXTENDS Integers, Sequences, FiniteSets, TLC

VARIABLES
    pc,            \* position in the operation being run
    pidx,          \* extract_outline_blocks: 1-based number of the page being read
    doc_handle,    \* extract_outline_blocks: the document of fitz.open: "none", "open", "closed"
    raw,           \* extract_outline_blocks: the raw line dicts collected so far
    title,         \* extract_outline_blocks: index of the TITLE block, 0 for None
    blocks,        \* extract_outline_blocks: the LineBlock list returned
    sections,      \* build_sections_from_blocks: the section list returned
    all_sections,  \* rank_sections: the section list as passed in
    ranked,        \* rank_sections: the list after the sort, as returned
    extracted_sections,  \* find_related_sections: the section dicts of all_sections
    current_page,        \* find_related_sections: its current_page argument
    current_section,     \* find_related_sections: its current_section argument
    related,             \* find_related_sections: the list returned
    snip_section,        \* extract_subsections: its section argument
    max_snips,           \* extract_subsections: its max_snips argument
    parts,               \* extract_subsections: the candidate fragments
    snippets,            \* extract_subsections: the list returned
    pdf_paths,           \* process_documents_intelligence: its pdf_paths argument
    path_idx,            \* process_documents_intelligence: the paths the loop has taken
    topk_sections,       \* process_documents_intelligence: its topk_sections argument
    out,                 \* process_documents_intelligence: the dict returned
    explain_args,        \* generate_enhanced_relevance_explanation: its arguments
    explanation,         \* the string a first evaluation returns
    explanation_again,   \* the string a second evaluation returns
    analysis_cache,      \* main.py: analysis_cache, cache key -> analysis result
    request,             \* main.py: the request being served
    analysis_result,     \* main.py: the analysis result the handler works with
    store,               \* main.py: documents_store, document id -> stored document
    kw,                  \* rank_sections: the keyword set of the query
    blend,               \* scoring: the weights of the blend of the signals
    reranked,            \* rank_sections: the list returned once the text has grown
    line,                \* _score_line: the line scored (text, is_bold, gap_above)
    rank_scores,         \* _score_line: its result for the line at each font rank
    spans,               \* _extract_page_lines: the span dicts of the line being read
    page_lines,          \* _extract_page_lines: the list returned
    page_facts_cache,    \* ContentAnalyzer: document id -> page number -> list of facts
    model_available,     \* ExternalFactGenerator: self.model is not None
    callers,             \* generate_fact_for_current_page: the coroutine of each caller
    generator_calls,     \* generate_fact_for_page_content: the calls of it that have returned
    text_blocks,         \* analyze_pdf: the blocks extract_text_with_metadata returned
    pdf_result           \* analyze_pdf: the dict returned (title, outline, language)

outlineVars == <<pidx, doc_handle, raw, title, blocks, sections>>

rankVars == <<all_sections, ranked>>

relatedVars == <<extracted_sections, current_page, current_section, related>>

snipVars == <<snip_section, max_snips, parts, snippets>>

batchVars == <<pdf_paths, path_idx, topk_sections, out>>

explainVars == <<explain_args, explanation, explanation_again>>

cacheVars == <<analysis_cache, request, analysis_result, store>>

scoreVars == <<kw, blend, reranked>>

lineVars == <<line, rank_scores>>

spanVars == <<spans, page_lines>>

factVars == <<page_facts_cache, model_available, callers, generator_calls>>

pdfVars == <<text_blocks, pdf_result>>

moreVars == <<lineVars, spanVars, factVars, pdfVars>>

laterVars == <<explainVars, cacheVars, scoreVars, moreVars>>

restVars == <<batchVars, laterVars>>

vars == <<pc, outlineVars, rankVars, relatedVars, snipVars, restVars>>

OutlineIdle ==
    /\ pidx = 0 /\ raw = <<>> /\ title = 0 /\ blocks = <<>> /\ sections = <<>>
    /\ doc_handle = "none"

RankIdle == all_sections = <<>> /\ ranked = <<>>

RelatedIdle ==
    /\ extracted_sections = <<>>
    /\ current_page = 0
    /\ current_section = ""
    /\ related = <<>>

NoResult ==
    [metadata |-> [input_documents |-> <<>>, persona |-> "", job_to_be_done |-> ""],
     extracted_sections |-> <<>>,
     subsection_analysis |-> <<>>]

BatchIdle ==
    /\ pdf_paths = <<>>
    /\ path_idx = 0
    /\ topk_sections = 0
    /\ out = NoResult

NoArgs ==
    [persona |-> "", job |-> "", current_section |-> "", document |-> "",
     relevance_score |-> 0, persona_keywords |-> {}, job_keywords |-> {},
     current_keywords |-> {}, section_keywords |-> {}]

ExplainIdle ==
    /\ explain_args = NoArgs
    /\ explanation = ""
    /\ explanation_again = ""

NoRequest == [document_ids |-> <<>>, persona |-> "", job_to_be_done |-> ""]

NoAnalysis ==
    [metadata |-> [input_documents |-> <<>>, persona |-> "", job_to_be_done |-> ""]]

CacheIdle ==
    /\ analysis_cache = <<>>
    /\ request = NoRequest
    /\ analysis_result = NoAnalysis
    /\ store = <<>>

ScoreIdle ==
    /\ kw = {}
    /\ blend = [tfidf |-> 0, keyword |-> 0, heading |-> 0]
    /\ reranked = <<>>

LineIdle ==
    /\ line = [text |-> "", is_bold |-> FALSE, gap_above |-> 0]
    /\ rank_scores = <<>>

SpanIdle == spans = <<>> /\ page_lines = <<>>

FactIdle ==
    /\ page_facts_cache = <<>>
    /\ model_available = FALSE
    /\ callers = <<>>
    /\ generator_calls = 0

NoPdfResult == [title |-> "", outline |-> <<>>, language |-> ""]

PdfIdle == text_blocks = <<>> /\ pdf_result = NoPdfResult

MoreIdle == LineIdle /\ SpanIdle /\ FactIdle /\ PdfIdle

LaterIdle == ExplainIdle /\ CacheIdle /\ ScoreIdle /\ MoreIdle

RestIdle == BatchIdle /\ LaterIdle

SnipIdle ==
    /\ snip_section = [doc |-> "", heading |-> "", page |-> 0, text |-> ""]
    /\ max_snips = 0
    /\ parts = <<>>
    /\ snippets = <<>>

-----------------------------------------------------------------------------
(* Characters and strings                                                  *)

UPPER == "ABCDEFGHIJKLMNOPQRSTUVWXYZ"
LOWER == "abcdefghijklmnopqrstuvwxyz"
DIGITS == "0123456789"

Ch(s, i) == SubSeq(s, i, i)

CharsOf(s) == {Ch(s, i) : i \in 1..Len(s)}

UpperSet == CharsOf(UPPER)
LowerSet == CharsOf(LOWER)
DigitSet == CharsOf(DIGITS)
SpaceSet == {" ", "\n"}

isupper(c) == c \in UpperSet
islower(c) == c \in LowerSet
isalpha(c) == c \in UpperSet \cup LowerSet
isdigit(c) == c \in DigitSet
isspace(c) == c \in SpaceSet

LowerOf == [c \in UpperSet |-> Ch(LOWER, CHOOSE i \in 1..26 : Ch(UPPER, i) = c)]

lowerch(c) == IF c \in UpperSet THEN LowerOf[c] ELSE c

RECURSIVE lower(_)
lower(s) ==
    IF Len(s) = 0 THEN ""
    ELSE IF Len(s) = 1 THEN lowerch(s)
    ELSE LET h == Len(s) \div 2
         IN  lower(SubSeq(s, 1, h)) \o lower(SubSeq(s, h + 1, Len(s)))

startswith(s, p) == Len(s) >= Len(p) /\ SubSeq(s, 1, Len(p)) = p

endswith(s, p) == Len(s) >= Len(p) /\ SubSeq(s, Len(s) - Len(p) + 1, Len(s)) = p

contains(s, p) == \E i \in 1..(Len(s) - Len(p) + 1) : SubSeq(s, i, i + Len(p) - 1) = p

RECURSIVE lstrip(_)
lstrip(s) == IF s # "" /\ isspace(Ch(s, 1)) THEN lstrip(Tail(s)) ELSE s

RECURSIVE rstrip(_)
rstrip(s) ==
    IF s # "" /\ isspace(Ch(s, Len(s))) THEN rstrip(SubSeq(s, 1, Len(s) - 1)) ELSE s

strip(s) == rstrip(lstrip(s))

\* len(text.split()): the number of maximal runs of non-whitespace
WordCount(s) ==
    Cardinality({i \in 1..Len(s) :
        /\ ~isspace(Ch(s, i))
        /\ (i = 1 \/ isspace(Ch(s, i - 1)))})

CountIn(s, set) == Cardinality({i \in 1..Len(s) : Ch(s, i) \in set})

\* the length of the longest prefix of s from position i made of characters of set
RECURSIVE Run(_, _, _)
Run(s, i, set) ==
    IF i <= Len(s) /\ Ch(s, i) \in set THEN 1 + Run(s, i + 1, set) ELSE 0

CharAt(s, i) == IF i >= 1 /\ i <= Len(s) THEN Ch(s, i) ELSE ""

-----------------------------------------------------------------------------
(* The documents the model draws                                           *)

MaxLines == 3
MaxPages == 2

ExecutiveSummary == "Executive Summary"
AnnualReport == "ANNUAL REPORT"
DashItem == "- first item"
NumberedScope == "1. SCOPE"
PlainSentence == "Revenue grew in the third quarter."
LongParagraph ==
    "in that year, however, the firm (and its two largest rivals) saw "
    \o "little change; output, prices and wages all moved by less than "
    \o "one percent, and nobody expected more of it."

\* the line texts of the documents drawn
DocTexts == {ExecutiveSummary, AnnualReport, DashItem, NumberedScope, LongParagraph}

\* the body lines of the round-trip scenario
BodyTexts == {PlainSentence, LongParagraph, DashItem}

Texts == DocTexts \cup BodyTexts

\* a span style: font size (thousandths of a point), boldness, space above the line
Styles ==
    {[font_size |-> 11000, is_bold |-> FALSE, lead |-> 1],
     [font_size |-> 18000, is_bold |-> TRUE, lead |-> 8]}

DocName == "report.pdf"

-----------------------------------------------------------------------------
(* outline_core.py                                                         *)

MAX_WORDS_HEADING == 20
MIN_HEADING_SCORE == 10
GAP_THRESH == 3

BULLET_START_TOKENS == {"@", "-", "*", "o"}

PUNCT == {",", ".", ";", ":", "!", "?", "(", ")", "[", "]", "{", "}", "'", "\""}

\* _caps_ratio as the pair <<uppercase letters, letters>>; <<0, 0>> is 0.0
_caps_ratio(t) == <<CountIn(t, UpperSet), CountIn(t, UpperSet \cup LowerSet)>>

\* caps >= n/d, for a ratio as _caps_ratio gives it
CapsGE(caps, n, d) == IF caps[2] = 0 THEN n <= 0 ELSE caps[1] * d >= n * caps[2]

CapsGT(caps, n, d) == IF caps[2] = 0 THEN n < 0 ELSE caps[1] * d > n * caps[2]

\* re.match(r"^\d+[\.\)]\s+", t)
NumberedBullet(t) ==
    LET d == Run(t, 1, DigitSet)
    IN  /\ d >= 1
        /\ CharAt(t, d + 1) \in {".", ")"}
        /\ isspace(CharAt(t, d + 2))

\* _is_bullet without its numbered-item pattern
_is_bullet_GlyphsOnly(text) ==
    \E tok \in BULLET_START_TOKENS : startswith(lstrip(text), tok)

_is_bullet(text) ==
    LET t == lstrip(text)
    IN  \/ \E tok \in BULLET_START_TOKENS : startswith(t, tok)
        \/ NumberedBullet(t)

\* re.match(r'^\d+\.?\d*\.?\s', text)
NumberedPattern(text) ==
    LET d1 == Run(text, 1, DigitSet)
        p1 == IF CharAt(text, d1 + 1) = "." THEN d1 + 2 ELSE d1 + 1
        p2 == p1 + Run(text, p1, DigitSet)
        p3 == IF CharAt(text, p2) = "." THEN p2 + 1 ELSE p2
    IN  d1 >= 1 /\ isspace(CharAt(text, p3))

\* re.match(r'^[A-Z]\.?\s', text)
LetteredPattern(text) ==
    LET p == IF CharAt(text, 2) = "." THEN 3 ELSE 2
    IN  isupper(CharAt(text, 1)) /\ isspace(CharAt(text, p))

\* re.match(r'^[IVX]+\.?\s', text)
RomanPattern(text) ==
    LET d == Run(text, 1, {"I", "V", "X"})
        p == IF CharAt(text, d + 1) = "." THEN d + 2 ELSE d + 1
    IN  d >= 1 /\ isspace(CharAt(text, p))

\* re.match(r'^\([a-zA-Z0-9]+\)', text)
ParenPattern(text) ==
    LET d == Run(text, 2, UpperSet \cup LowerSet \cup DigitSet)
    IN  CharAt(text, 1) = "(" /\ d >= 1 /\ CharAt(text, d + 2) = ")"

heading_words ==
    {"chapter", "section", "introduction", "conclusion", "summary",
     "overview", "background", "methodology", "results", "discussion",
     "abstract", "appendix", "references", "bibliography", "executive",
     "table of contents", "contents", "index", "glossary", "preface",
     "acknowledgments", "foreword", "part", "volume", "book", "unit",
     "lesson", "exercise", "problem", "solution", "example", "case",
     "study", "analysis", "evaluation", "assessment", "review",
     "objective", "goal", "purpose", "scope", "definition", "concept",
     "theory", "principle", "method", "approach", "technique", "process",
     "procedure", "step", "phase", "stage", "level", "degree", "grade",
     "key", "main", "primary", "secondary", "important", "critical",
     "essential", "fundamental", "basic", "advanced", "final", "initial"}

Prepositions == {"in ", "on ", "at ", "for ", "of ", "to ", "by "}

\* the font-rank term without its arm for rank 4
RankBonus_SkipsFour(font_rank) ==
    IF font_rank = 0 THEN 20
    ELSE IF font_rank = 1 THEN 15
    ELSE IF font_rank = 2 THEN 12
    ELSE IF font_rank = 3 THEN 10
    ELSE IF font_rank <= 6 THEN 5
    ELSE 0

\* the font-rank term of _score_line
RankBonus(font_rank) ==
    IF font_rank = 0 THEN 20
    ELSE IF font_rank = 1 THEN 15
    ELSE IF font_rank = 2 THEN 12
    ELSE IF font_rank = 3 THEN 10
    ELSE IF font_rank = 4 THEN 8
    ELSE IF font_rank <= 6 THEN 5
    ELSE 0

\* the structural-pattern term of _score_line
PatternBonus(text) ==
    IF NumberedPattern(text) THEN 15
    ELSE IF LetteredPattern(text) THEN 12
    ELSE IF RomanPattern(text) THEN 12
    ELSE IF ParenPattern(text) THEN 10
    ELSE 0

\* the vertical-gap term of _score_line
GapBonus(gap_above) ==
    IF gap_above > GAP_THRESH * 2 THEN 10
    ELSE IF gap_above > GAP_THRESH THEN 7
    ELSE IF 2 * gap_above > GAP_THRESH THEN 4
    ELSE 0

\* the terms of _score_line that read the text and its caps ratio only
TextScore(text, caps) ==
    LET w == WordCount(text)
        text_lower == lower(text)
        punct == CountIn(text, PUNCT)
    IN    (IF text # "" /\ islower(Ch(text, 1)) THEN -10 ELSE 0)
        + (IF \E p \in Prepositions : startswith(text_lower, p) THEN -5 ELSE 0)
        + (IF w <= MAX_WORDS_HEADING THEN 15 ELSE 0)
        + (IF w <= 5 THEN 10 ELSE 0)
        + (IF w <= 8 THEN 5 ELSE 0)
        + (IF CapsGE(caps, 8, 10) THEN 12
           ELSE IF CapsGE(caps, 2, 10) THEN 8
           ELSE IF CapsGE(caps, 1, 10) THEN 3
           ELSE 0)
        + PatternBonus(text)
        + (IF \E word \in heading_words : contains(text_lower, word) THEN 10 ELSE 0)
        + (IF endswith(text, "?") /\ w <= 12 THEN 8 ELSE 0)
        + (IF endswith(text, ":") /\ w <= 10 THEN 8 ELSE 0)
        + (IF CapsGE(caps, 9, 10) /\ w <= 6 THEN 10 ELSE 0)
        + (IF punct >= 4 THEN -3 ELSE IF punct = 0 /\ w > 1 THEN 5 ELSE 0)
        + (IF Len(text) < 3 THEN -15
           ELSE IF Len(text) <= 80 THEN 5
           ELSE IF Len(text) > 150 THEN -8
           ELSE 0)
        + (IF CountIn(text, {"."}) <= 1 /\ ~endswith(text, ".") /\ w >= 2 THEN 3 ELSE 0)

\* _caps_ratio, _is_bullet and TextScore of each text the model draws, evaluated once
TextFacts ==
    [t \in Texts |->
        [caps_ratio |-> _caps_ratio(t),
         is_bullet |-> _is_bullet(t),
         text_score |-> TextScore(t, _caps_ratio(t))]]

CapsRatioOf(text) ==
    IF text \in Texts THEN TextFacts[text].caps_ratio ELSE _caps_ratio(text)

IsBulletOf(text) ==
    IF text \in Texts THEN TextFacts[text].is_bullet ELSE _is_bullet(text)

TextTerms(text, caps) ==
    IF text \in Texts /\ caps = TextFacts[text].caps_ratio THEN TextFacts[text].text_score
    ELSE TextScore(text, caps)

\* _score_line, in tenths
_score_line(text, caps, font_rank, is_bold, gap_above) ==
    IF IsBulletOf(text) THEN -50
    ELSE  TextTerms(text, caps)
        + RankBonus(font_rank)
        + (IF is_bold THEN 15 ELSE 0)
        + GapBonus(gap_above)

\* round(font_size, 2), in hundredths of a point (halves to even)
Round2(sz) ==
    LET q == sz \div 10
        r == sz % 10
    IN  IF r > 5 \/ (r = 5 /\ q % 2 = 1) THEN q + 1 ELSE q

\* uniq: the distinct rounded font sizes of the raw lines
UniqSizes(lines) == {Round2(lines[j].font_size) : j \in 1..Len(lines)}

\* the place of the size in uniq sorted without reverse=True, smallest first
RankOf_Ascending(uniq, sz) == Cardinality({u \in uniq : u < Round2(sz)})

\* rankmap[round(r["font_size"], 2)]: the place of the size in uniq, largest first
RankOf(uniq, sz) == Cardinality({u \in uniq : u > Round2(sz)})

\* the first n LineBlock objects built from the raw lines, each still tagged BODY
RECURSIVE BuildBlocks(_, _, _)
BuildBlocks(lines, uniq, n) ==
    IF n = 0 THEN <<>>
    ELSE Append(BuildBlocks(lines, uniq, n - 1),
            [text |-> lines[n].text,
             page |-> lines[n].page,
             bbox |-> lines[n].bbox,
             font_size |-> lines[n].font_size,
             is_bold |-> lines[n].is_bold,
             caps_ratio |-> CapsRatioOf(lines[n].text),
             font_rank |-> RankOf(uniq, lines[n].font_size),
             tag |-> "BODY"])

\* gap_above of block i: 9999 for the first line of a page
GapAbove(bs, i) ==
    IF i = 1 \/ bs[i - 1].page # bs[i].page THEN 9999
    ELSE bs[i].bbox[2] - bs[i - 1].bbox[4]

ScoreOfBlock(bs, i) ==
    _score_line(bs[i].text, bs[i].caps_ratio, bs[i].font_rank, bs[i].is_bold,
                GapAbove(bs, i))

\* whether the scoring loop tags block i HEADING
IsHeadingScore(s) == s >= MIN_HEADING_SCORE

\* TakesTitle without the comparison of font sizes: the last candidate wins
TakesTitle_Last(bs, t, i) ==
    bs[i].page = 1 /\ CapsGT(bs[i].caps_ratio, 7, 10)

\* whether block i replaces the title candidate t (0 is None) in the scoring loop
TakesTitle(bs, t, i) ==
    /\ bs[i].page = 1
    /\ CapsGT(bs[i].caps_ratio, 7, 10)
    /\ (t = 0 \/ bs[i].font_size > bs[t].font_size)

\* the title candidate after the scoring loop has run over blocks 1..i
RECURSIVE TitleAfter(_, _)
TitleAfter(bs, i) ==
    IF i = 0 THEN 0
    ELSE LET t == TitleAfter(bs, i - 1)
         IN  IF TakesTitle(bs, t, i) THEN i ELSE t

\* the tag of block i when extract_outline_blocks returns
FinalTag(bs, t, i) ==
    IF t # 0 /\ i = t THEN "TITLE"
    ELSE IF IsHeadingScore(ScoreOfBlock(bs, i)) THEN "HEADING"
    ELSE "BODY"

\* the blocks as returned, for the title candidate t the loop ended with
TagBlocks(bs, t) == <<t, [i \in 1..Len(bs) |-> [bs[i] EXCEPT !.tag = FinalTag(bs, t, i)]]>>

\* the scoring loop and the title tag, over the blocks built
ScoreBlocks(bs) == TagBlocks(bs, TitleAfter(bs, Len(bs)))

\* extract_outline_blocks after doc.close(): <<title, blocks>>, title an index into
\* blocks or 0 for None
extract_outline_blocks(lines) ==
    IF lines = <<>> THEN <<0, <<>>>>
    ELSE ScoreBlocks(BuildBlocks(lines, UniqSizes(lines), Len(lines)))

-----------------------------------------------------------------------------
(* document_intelligence.py: build_sections_from_blocks                    *)

\* sep.join(strs)
RECURSIVE join(_, _)
join(sep, strs) ==
    IF strs = <<>> THEN ""
    ELSE IF Len(strs) = 1 THEN strs[1]
    ELSE strs[1] \o sep \o join(sep, Tail(strs))

SetMin(S) == CHOOSE m \in S : \A x \in S : m <= x

\* the builder's locals before the first block; current_heading is an index into
\* blocks, 0 for None
BuilderStart ==
    [sections |-> <<>>, current_heading |-> 0, current_text |-> <<>>, current_pages |-> {}]

\* flush() that emits a section only when body text was collected for it
flush_SkipEmpty(bs, st, doc_name) ==
    [sections |->
        IF st.current_heading # 0 /\ st.current_text # <<>>
        THEN Append(st.sections,
                [doc |-> doc_name,
                 heading |-> bs[st.current_heading].text,
                 page |-> SetMin(st.current_pages),
                 text |-> strip(join(" ", st.current_text))])
        ELSE st.sections,
     current_heading |-> 0,
     current_text |-> <<>>,
     current_pages |-> {}]

\* flush(): emit the section in progress, if any, and reset the locals
flush(bs, st, doc_name) ==
    [sections |->
        IF st.current_heading # 0
        THEN Append(st.sections,
                [doc |-> doc_name,
                 heading |-> bs[st.current_heading].text,
                 page |-> IF st.current_pages # {} THEN SetMin(st.current_pages)
                          ELSE bs[st.current_heading].page,
                 text |-> strip(join(" ", st.current_text))])
        ELSE st.sections,
     current_heading |-> 0,
     current_text |-> <<>>,
     current_pages |-> {}]

\* the loop body without its skip of the TITLE block
ScanBlock_TitleAsBody(bs, st, i, doc_name) ==
    IF bs[i].tag = "HEADING"
    THEN [flush(bs, st, doc_name) EXCEPT
            !.current_heading = i, !.current_text = <<>>, !.current_pages = {bs[i].page}]
    ELSE IF st.current_heading # 0
    THEN [st EXCEPT !.current_text = Append(@, bs[i].text),
                    !.current_pages = @ \cup {bs[i].page}]
    ELSE st

\* one iteration of the loop over blocks
ScanBlock(bs, st, i, doc_name) ==
    IF bs[i].tag = "TITLE" THEN st
    ELSE IF bs[i].tag = "HEADING"
    THEN [flush(bs, st, doc_name) EXCEPT
            !.current_heading = i, !.current_text = <<>>, !.current_pages = {bs[i].page}]
    ELSE IF st.current_heading # 0
    THEN [st EXCEPT !.current_text = Append(@, bs[i].text),
                    !.current_pages = @ \cup {bs[i].page}]
    ELSE st

RECURSIVE ScanBlocks(_, _, _)
ScanBlocks(bs, i, doc_name) ==
    IF i = 0 THEN BuilderStart
    ELSE ScanBlock(bs, ScanBlocks(bs, i - 1, doc_name), i, doc_name)

\* the texts of the blocks that are not the title, in order
RECURSIVE NonTitleTexts(_)
NonTitleTexts(bs) ==
    IF bs = <<>> THEN <<>>
    ELSE (IF Head(bs).tag # "TITLE" THEN <<Head(bs).text>> ELSE <<>>)
         \o NonTitleTexts(Tail(bs))

\* the fallback section with the title line's text left in
FallbackSection_WithTitle(bs, doc_name) ==
    [doc |-> doc_name, heading |-> doc_name, page |-> 1,
     text |-> strip(join(" ", [i \in 1..Len(bs) |-> bs[i].text]))]

\* the fallback section of a document in which no heading was found
FallbackSection(bs, doc_name) ==
    [doc |-> doc_name, heading |-> doc_name, page |-> 1,
     text |-> strip(join(" ", NonTitleTexts(bs)))]

\* the sections found, or the fallback section when there are none
OrFallback(secs, bs, doc_name) ==
    IF secs = <<>> THEN <<FallbackSection(bs, doc_name)>> ELSE secs

build_sections_from_blocks(title_block, bs, doc_name) ==
    OrFallback(flush(bs, ScanBlocks(bs, Len(bs), doc_name), doc_name).sections,
               bs, doc_name)

-----------------------------------------------------------------------------
(* One document through process_documents_intelligence                     *)

\* the raw line dict of a line of the given text and style on page p, below the
\* line before it on that page
RawLine(lines, p, text, style) ==
    LET onPage == lines # <<>> /\ lines[Len(lines)].page = p
        y0 == (IF onPage THEN lines[Len(lines)].bbox[4] ELSE 0) + style.lead
    IN  [text |-> text,
         page |-> p,
         bbox |-> <<0, y0, 100, y0 + style.font_size \div 1000>>,
         is_bold |-> style.is_bold,
         font_size |-> style.font_size]

Init ==
    /\ pc = "extract"
    /\ pidx = 0
    /\ doc_handle = "open"
    /\ raw = <<>>
    /\ title = 0
    /\ blocks = <<>>
    /\ sections = <<>>
    /\ RankIdle
    /\ RelatedIdle
    /\ SnipIdle
    /\ RestIdle

\* extract_outline_blocks: doc.load_page(pidx) of the loop over the pages
LoadPage ==
    /\ pc = "extract"
    /\ pidx < MaxPages
    /\ pidx' = pidx + 1
    /\ UNCHANGED <<pc, doc_handle, raw, title, blocks, sections, rankVars, relatedVars, snipVars, restVars>>

\* extract_outline_blocks: raw.append(...) for one line of the page being read
ExtractLine ==
    /\ pc = "extract"
    /\ pidx >= 1
    /\ Len(raw) < MaxLines
    /\ \E text \in DocTexts, style \in Styles :
          raw' = Append(raw, RawLine(raw, pidx, text, style))
    /\ UNCHANGED <<pc, pidx, doc_handle, title, blocks, sections, rankVars, relatedVars, snipVars, restVars>>

\* extract_outline_blocks from doc.close() to its return
Classify ==
    /\ pc = "extract"
    /\ \E r \in {extract_outline_blocks(raw)} : title' = r[1] /\ blocks' = r[2]
    /\ doc_handle' = "closed"
    /\ pc' = "build"
    /\ pidx' = 0
    /\ UNCHANGED <<raw, sections, rankVars, relatedVars, snipVars, restVars>>

\* secs = build_sections_from_blocks(title, blocks, doc_name)
BuildSections ==
    /\ pc = "build"
    /\ sections' = build_sections_from_blocks(title, blocks, DocName)
    /\ pc' = "done"
    /\ UNCHANGED <<pidx, doc_handle, raw, title, blocks, rankVars, relatedVars, snipVars, restVars>>

Next == LoadPage \/ ExtractLine \/ Classify \/ BuildSections

Spec == Init /\ [][Next]_vars

\* extract_outline_blocks: doc.load_page or page.get_text raises for a page that
\* cannot be parsed; the exception leaves extract_outline_blocks at once
PageRaises ==
    /\ pc = "extract"
    /\ pidx < MaxPages
    /\ pc' = "raised"
    /\ pidx' = pidx + 1
    /\ UNCHANGED <<doc_handle, raw, title, blocks, sections, rankVars, relatedVars, snipVars, restVars>>

NextRaise == LoadPage \/ ExtractLine \/ PageRaises \/ Classify \/ BuildSections

SpecRaise == Init /\ [][NextRaise]_vars

\* the round-trip scenario: one page, a bold 18pt "Executive Summary", then three
\* 11pt lines of body text
RoundTripDocs ==
    {<<h, b1, b2, b3>> :
        h \in {[text |-> ExecutiveSummary, style |-> [font_size |-> 18000, is_bold |-> TRUE, lead |-> 8]]},
        b1 \in [text : BodyTexts, style : {st \in Styles : st.font_size = 11000}
                                         \cup {[font_size |-> 11000, is_bold |-> FALSE, lead |-> 4]}],
        b2 \in [text : BodyTexts, style : {st \in Styles : st.font_size = 11000}
                                         \cup {[font_size |-> 11000, is_bold |-> FALSE, lead |-> 4]}],
        b3 \in [text : BodyTexts, style : {st \in Styles : st.font_size = 11000}
                                         \cup {[font_size |-> 11000, is_bold |-> FALSE, lead |-> 4]}]}

RECURSIVE RawLines(_, _)
RawLines(doc, n) ==
    IF n = 0 THEN <<>>
    ELSE LET before == RawLines(doc, n - 1)
         IN  Append(before, RawLine(before, 1, doc[n].text, doc[n].style))

InitRoundTrip ==
    /\ pc = "extract"
    /\ pidx = 1
    /\ doc_handle = "open"
    /\ \E doc \in RoundTripDocs : raw = RawLines(doc, 4)
    /\ title = 0
    /\ blocks = <<>>
    /\ sections = <<>>
    /\ RankIdle
    /\ RelatedIdle
    /\ SnipIdle
    /\ RestIdle

NextRoundTrip == Classify \/ BuildSections

SpecRoundTrip == InitRoundTrip /\ [][NextRoundTrip]_vars

\* documents whose lines differ in font size only: sizes in thousandths of a
\* point, some of them equal once rounded to two decimals
MaxFontLines == 3

FontSizes == {11000, 11004, 11996, 12000, 18000}

FontLineSpecs ==
    [page : 1..MaxPages, text : {PlainSentence},
     style : [font_size : FontSizes, is_bold : {FALSE}, lead : {1}]]

RECURSIVE FontDocs(_)
FontDocs(n) ==
    IF n = 0 THEN {<<>>}
    ELSE LET shorter == FontDocs(n - 1)
         IN  shorter \cup
             {Append(d, l) : d \in {m \in shorter : Len(m) = n - 1},
                             l \in FontLineSpecs}

PagesAscend(doc) == \A i, j \in 1..Len(doc) : i < j => doc[i].page <= doc[j].page

RECURSIVE RawLinesOf(_, _)
RawLinesOf(doc, n) ==
    IF n = 0 THEN <<>>
    ELSE Append(RawLinesOf(doc, n - 1),
                RawLine(RawLinesOf(doc, n - 1), doc[n].page, doc[n].text, doc[n].style))

InitFont ==
    /\ pc = "extract"
    /\ pidx = MaxPages
    /\ doc_handle = "open"
    /\ \E doc \in {d \in FontDocs(MaxFontLines) : d # <<>> /\ PagesAscend(d)} :
          raw = RawLinesOf(doc, Len(doc))
    /\ title = 0
    /\ blocks = <<>>
    /\ sections = <<>>
    /\ RankIdle
    /\ RelatedIdle
    /\ SnipIdle
    /\ RestIdle

NextFont == Classify \/ BuildSections

SpecFont == InitFont /\ [][NextFont]_vars

-----------------------------------------------------------------------------
(* document_intelligence.py: rank_sections                                 *)

MaxSections == 3

\* the scores scoring.combined_scores may give a section, in millionths
ScoreValues == {0, 250000, 500000}

\* the sections ranked: distinct headings, from two documents
SectionPool ==
    {[doc |-> "a.pdf", heading |-> "Overview", page |-> 1, text |-> "alpha beta"],
     [doc |-> "a.pdf", heading |-> "Methods", page |-> 2, text |-> "gamma"],
     [doc |-> "b.pdf", heading |-> "Results", page |-> 1, text |-> ""],
     [doc |-> "b.pdf", heading |-> "b.pdf", page |-> 1, text |-> "delta"]}

\* the lists of at most n sections without repetition
RECURSIVE SectionLists(_)
SectionLists(n) ==
    IF n = 0 THEN {<<>>}
    ELSE LET shorter == SectionLists(n - 1)
         IN  shorter \cup
             {Append(l, x) : l \in {m \in shorter : Len(m) = n - 1},
                             x \in SectionPool}

Distinct(l) == \A i, j \in 1..Len(l) : i # j => l[i] # l[j]

\* list.sort(key=..., reverse=True) with ties inserted ahead of equal elements
InsertDesc_BeforeTies(sorted, x) ==
    LET k == Cardinality({i \in 1..Len(sorted) : sorted[i].score > x.score})
    IN  SubSeq(sorted, 1, k) \o <<x>> \o SubSeq(sorted, k + 1, Len(sorted))

\* one element placed into a list already sorted by descending score, after the
\* elements that do not score less: the sort is stable
InsertDesc(sorted, x) ==
    LET k == Cardinality({i \in 1..Len(sorted) : sorted[i].score >= x.score})
    IN  SubSeq(sorted, 1, k) \o <<x>> \o SubSeq(sorted, k + 1, Len(sorted))

\* sections.sort(key=lambda x: x["score"], reverse=True) over the first n elements
RECURSIVE SortDesc(_, _)
SortDesc(l, n) ==
    IF n = 0 THEN <<>> ELSE InsertDesc(SortDesc(l, n - 1), l[n])

\* the scores zipped to the sections from the wrong end
WithScores_Reversed(secs, scores) ==
    [i \in 1..Len(secs) |->
        [doc |-> secs[i].doc, heading |-> secs[i].heading, page |-> secs[i].page,
         text |-> secs[i].text, score |-> scores[Len(secs) + 1 - i]]]

\* s["score"] = float(sc) for each section and its score
WithScores(secs, scores) ==
    [i \in 1..Len(secs) |->
        [doc |-> secs[i].doc, heading |-> secs[i].heading, page |-> secs[i].page,
         text |-> secs[i].text, score |-> scores[i]]]

\* s["importance_rank"] = i, counting from 1
WithRanks(sorted) ==
    [i \in 1..Len(sorted) |->
        [doc |-> sorted[i].doc, heading |-> sorted[i].heading, page |-> sorted[i].page,
         text |-> sorted[i].text, score |-> sorted[i].score, importance_rank |-> i]]

\* rank_sections, for the scores that scoring.combined_scores returned
rank_sections(secs, scores) ==
    WithRanks(SortDesc(WithScores(secs, scores), Len(secs)))

InitRank ==
    /\ pc = "rank"
    /\ all_sections \in {l \in SectionLists(MaxSections) : l # <<>> /\ Distinct(l)}
    /\ ranked = <<>>
    /\ OutlineIdle
    /\ RelatedIdle
    /\ SnipIdle
    /\ RestIdle

\* ranked = rank_sections(persona, job, all_sections)
RankSections ==
    /\ pc = "rank"
    /\ \E scores \in [1..Len(all_sections) -> ScoreValues] :
          ranked' = rank_sections(all_sections, scores)
    /\ pc' = "ranked"
    /\ UNCHANGED <<all_sections, outlineVars, relatedVars, snipVars, restVars>>

NextRank == RankSections

SpecRank == InitRank /\ [][NextRank]_vars

-----------------------------------------------------------------------------
(* scoring.combined_scores as rank_sections calls it. The scoring module   *)
(* is not among the sources: the score is the weighted blend of a term     *)
(* frequency / inverse document frequency sum over the query keywords, of  *)
(* the number of distinct query keywords in the section and of the number  *)
(* in its heading, as the Relevance Scorer contract describes it.          *)

\* the lower-case words of str
RECURSIVE TokensFrom(_, _, _, _)
TokensFrom(str, i, start, acc) ==
    IF i > Len(str)
    THEN IF start <= Len(str) THEN Append(acc, lower(SubSeq(str, start, Len(str)))) ELSE acc
    ELSE IF isspace(Ch(str, i))
    THEN TokensFrom(str, i + 1, i + 1,
                    IF start < i THEN Append(acc, lower(SubSeq(str, start, i - 1))) ELSE acc)
    ELSE TokensFrom(str, i + 1, start, acc)

Tokens(str) == TokensFrom(str, 1, 1, <<>>)

\* the number of occurrences of term in the words
TermFrequency(words, term) == Cardinality({i \in 1..Len(words) : words[i] = term})

\* the number of the documents that hold term
DocumentFrequency(docs, term) ==
    Cardinality({i \in 1..Len(docs) : TermFrequency(docs[i], term) > 0})

\* larger for a term fewer documents hold, never below 1
InverseDocumentFrequency(docs, term) == Len(docs) + 1 - DocumentFrequency(docs, term)

RECURSIVE SumOver(_, _, _)
SumOver(terms, docs, words) ==
    IF terms = {} THEN 0
    ELSE LET t == CHOOSE x \in terms : TRUE
         IN  TermFrequency(words, t) * InverseDocumentFrequency(docs, t)
                + SumOver(terms \ {t}, docs, words)

DistinctIn(terms, words) == Cardinality({t \in terms : TermFrequency(words, t) > 0})

\* scoring.combined_scores(query, headings, texts, kw), for the weights w
combined_scores(terms, w, headings, texts) ==
    LET docs == [i \in 1..Len(texts) |-> Tokens(headings[i] \o " " \o texts[i])]
    IN  [i \in 1..Len(texts) |->
            w.tfidf * SumOver(terms, docs, docs[i])
               + w.keyword * DistinctIn(terms, docs[i])
               + w.heading * DistinctIn(terms, Tokens(headings[i]))]

HeadingsOf(secs) == [i \in 1..Len(secs) |-> secs[i].heading]

BodiesOf(secs) == [i \in 1..Len(secs) |-> secs[i].text]

\* the sections with one more occurrence of term at the end of the text of section i
Grown(secs, i, term) ==
    [j \in 1..Len(secs) |->
        IF j = i THEN [secs[j] EXCEPT !.text = @ \o " " \o term] ELSE secs[j]]

MaxScored == 2

notScoreVars ==
    <<outlineVars, relatedVars, snipVars, batchVars, explainVars, cacheVars, moreVars>>

InitScore ==
    /\ pc = "score"
    /\ all_sections \in {l \in SectionLists(MaxScored) : l # <<>> /\ Distinct(l)}
    /\ ranked = <<>>
    /\ kw \in {{"alpha"}, {"alpha", "gamma"}, {"overview", "delta"}}
    /\ blend \in [tfidf : 1..2, keyword : 0..1, heading : 0..1]
    /\ reranked = <<>>
    /\ OutlineIdle
    /\ RelatedIdle
    /\ SnipIdle
    /\ BatchIdle
    /\ ExplainIdle
    /\ CacheIdle
    /\ MoreIdle

\* ranked = rank_sections(persona, job, all_sections)
ScoreSections ==
    /\ pc = "score"
    /\ ranked' = rank_sections(all_sections,
                    combined_scores(kw, blend, HeadingsOf(all_sections), BodiesOf(all_sections)))
    /\ pc' = "scored"
    /\ UNCHANGED <<all_sections, kw, blend, reranked, notScoreVars>>

\* the same call after a query keyword was appended to the text of one section
GrowAndScore ==
    /\ pc = "scored"
    /\ \E i \in 1..Len(all_sections), term \in kw :
          /\ all_sections' = Grown(all_sections, i, term)
          /\ reranked' = rank_sections(all_sections',
                            combined_scores(kw, blend, HeadingsOf(all_sections'),
                                            BodiesOf(all_sections')))
    /\ pc' = "rescored"
    /\ UNCHANGED <<ranked, kw, blend, notScoreVars>>

NextScore == ScoreSections \/ GrowAndScore

SpecScore == InitScore /\ [][NextScore]_vars

-----------------------------------------------------------------------------
(* document_intelligence.py: find_related_sections                         *)

\* limit, as /related-sections passes it and as the parameter defaults
Limit == 3

MaxRelated == 2

\* the scores scoring.combined_scores may give a candidate, in millionths
BaseScores == {200000, 500000, 800000}

\* a section dict: keys is the set of the keys it has; the field of a key it does
\* not have holds 0 or "" and is never read
Dict(keys, document, section_title, page_number, page, relevance_score, importance_rank) ==
    [keys |-> keys, document |-> document, section_title |-> section_title,
     page_number |-> page_number, page |-> page, relevance_score |-> relevance_score,
     importance_rank |-> importance_rank, contextual_score |-> 0]

\* the keys of an entry of extracted_sections, as process_documents_intelligence
\* writes it, and of a section dict as rank_sections leaves it
ExtractedKeys == {"document", "section_title", "importance_rank", "page_number", "relevance_score"}

RankedKeys == {"page", "importance_rank"}

\* d.get(k, default)
Get(d, k, default) == IF k \in d.keys THEN d[k] ELSE default

RelatedPool ==
    {Dict(ExtractedKeys, doc, "Results", pn, 0, rs[1], rs[2]) :
        doc \in {"a.pdf", "b.pdf"}, pn \in 1..2, rs \in {<<600000, 1>>, <<300000, 6>>}}
    \cup {Dict(RankedKeys, "", "", 0, pg, 0, ir) : pg \in 1..2, ir \in {1, 6}}

RECURSIVE RelatedLists(_)
RelatedLists(n) ==
    IF n = 0 THEN {<<>>}
    ELSE LET shorter == RelatedLists(n - 1)
         IN  shorter \cup
             {Append(l, x) : l \in {m \in shorter : Len(m) = n - 1}, x \in RelatedPool}

\* six sections of three documents on page 2, three of them of a.pdf
SixOfThreeDocuments ==
    <<Dict(ExtractedKeys, "a.pdf", "Overview", 2, 0, 900000, 1),
      Dict(ExtractedKeys, "a.pdf", "Key Findings", 2, 0, 800000, 2),
      Dict(ExtractedKeys, "a.pdf", "Methods", 2, 0, 700000, 3),
      Dict(ExtractedKeys, "b.pdf", "Background", 2, 0, 600000, 4),
      Dict(ExtractedKeys, "b.pdf", "Summary", 2, 0, 500000, 5),
      Dict(ExtractedKeys, "c.pdf", "Appendix", 2, 0, 400000, 6)>>

\* the six, and a section of b.pdf on page 1
SixAndOneOnPageOne ==
    Append(SixOfThreeDocuments, Dict(ExtractedKeys, "b.pdf", "Preface", 1, 0, 300000, 7))

\* five sections on page 2 whose scores tie in twos and threes, behind the
\* best-scored section, which is on page 1
TiedAndOneOnPageOne ==
    <<Dict(ExtractedKeys, "a.pdf", "Preface", 1, 0, 900000, 1),
      Dict(ExtractedKeys, "a.pdf", "Overview", 2, 0, 500000, 4),
      Dict(ExtractedKeys, "a.pdf", "Methods", 2, 0, 800000, 2),
      Dict(ExtractedKeys, "b.pdf", "Background", 2, 0, 500000, 5),
      Dict(ExtractedKeys, "b.pdf", "Results", 2, 0, 800000, 3),
      Dict(ExtractedKeys, "c.pdf", "Appendix", 2, 0, 500000, 6)>>

\* s.get("page_number", s.get("page", 0))
PageKey(d) == Get(d, "page_number", Get(d, "page", 0))

\* Pass 1 without its filter
FilteredPlaces_KeepAll(all, cp) == [i \in 1..Len(all) |-> i]

\* the places in all of the sections kept by the filter of Pass 1
FilteredPlaces(all, cp) ==
    SelectSeq([i \in 1..Len(all) |-> i], LAMBDA i : PageKey(all[i]) # cp)

\* _get_current_document_from_page: "<None>" for None
RECURSIVE CurrentDocumentFrom(_, _, _)
CurrentDocumentFrom(all, cp, i) ==
    IF i > Len(all) THEN "<None>"
    ELSE IF PageKey(all[i]) = cp THEN Get(all[i], "document", "Unknown Document")
    ELSE CurrentDocumentFrom(all, cp, i + 1)

_get_current_document_from_page(cp, all) == CurrentDocumentFrom(all, cp, 1)

KeyIndicators == {"conclusion", "summary", "key", "important"}

\* base_score * factor, the factor in hundredths
Boost(score, factor) == (score * factor) \div 100

\* Pass 3: the contextual score of a candidate whose base score is base_score
ContextualScore(section, current_doc, base_score) ==
    LET s1 == IF current_doc # "<None>" /\ current_doc # ""
                 /\ Get(section, "document", "<None>") = current_doc
              THEN Boost(base_score, 130) ELSE base_score
        s2 == IF Get(section, "importance_rank", 10) <= 5 THEN Boost(s1, 120) ELSE s1
        s3 == IF \E ind \in KeyIndicators :
                    contains(lower(Get(section, "section_title", "")), ind)
              THEN Boost(s2, 115) ELSE s2
    IN  s3

\* the dicts after Pass 3: the k-th candidate has its contextual_score set
WithContextualScores(all, places, current_doc, base_scores) ==
    [i \in 1..Len(all) |->
        IF \E k \in 1..Len(places) : places[k] = i
        THEN LET k == CHOOSE k \in 1..Len(places) : places[k] = i
             IN  [all[i] EXCEPT
                    !.keys = @ \cup {"contextual_score"},
                    !.contextual_score = ContextualScore(all[i], current_doc, base_scores[k])]
        ELSE all[i]]

\* the candidates, each with the key the sort reads
Keyed(all, places, key, default) ==
    [k \in 1..Len(places) |-> [score |-> Get(all[places[k]], key, default),
                               item |-> all[places[k]]]]

Items(keyed) == [k \in 1..Len(keyed) |-> keyed[k].item]

\* filtered_sections.sort(key=lambda x: x.get(key, 0), reverse=True)
SortedBy(all, places, key) == Items(SortDesc(Keyed(all, places, key, 0), Len(places)))

\* one iteration of the diversification loop of Pass 4
DiversifyStep(st, section, limit) ==
    LET doc_name == Get(section, "document", "Unknown")
    IN  IF Len(st.diversified_sections) < limit
        THEN [diversified_sections |-> Append(st.diversified_sections, section),
              seen_documents |-> st.seen_documents \cup {doc_name}]
        ELSE IF doc_name \notin st.seen_documents
                /\ Len(st.diversified_sections) < limit * 2
        THEN [diversified_sections |-> Append(st.diversified_sections, section),
              seen_documents |-> st.seen_documents \cup {doc_name}]
        ELSE st

RECURSIVE Diversify(_, _, _)
Diversify(sorted, n, limit) ==
    IF n = 0 THEN [diversified_sections |-> <<>>, seen_documents |-> {}]
    ELSE DiversifyStep(Diversify(sorted, n - 1, limit), sorted[n], limit)

\* l[:n] without the cut
Take_All(l, n) == l

\* l[:n]
Take(l, n) == SubSeq(l, 1, IF n < Len(l) THEN n ELSE Len(l))

\* Pass 5: the entry returned for a selected section
RelatedEntry(section) ==
    [document |-> Get(section, "document", "Unknown Document"),
     section_title |-> Get(section, "section_title", "Unknown Section"),
     page_number |-> Get(section, "page_number", 1),
     relevance_score |-> Get(section, "contextual_score", Get(section, "relevance_score", 0))]

Entries(selected) == [k \in 1..Len(selected) |-> RelatedEntry(selected[k])]

\* Passes 2 to 5 with current-section text, over the dicts scored by Pass 3
RelatedWithContext(scored, places, limit) ==
    <<Entries(Take(Diversify(SortedBy(scored, places, "contextual_score"),
                             Len(places), limit).diversified_sections, limit)),
      scored>>

\* find_related_sections: <<the list returned, all_sections as the call leaves it>>;
\* base_scores is what scoring.combined_scores returns for the candidates
find_related_sections(cp, cs, all, base_scores, limit) ==
    IF all = <<>> THEN <<<<>>, all>>
    ELSE IF FilteredPlaces(all, cp) = <<>> THEN <<<<>>, all>>
    ELSE IF cs # ""
    THEN RelatedWithContext(
            WithContextualScores(all, FilteredPlaces(all, cp),
                                 _get_current_document_from_page(cp, all), base_scores),
            FilteredPlaces(all, cp), limit)
    ELSE <<Entries(Take(SortedBy(all, FilteredPlaces(all, cp), "relevance_score"), limit)),
           all>>

InitRelated ==
    /\ pc = "related"
    /\ extracted_sections \in RelatedLists(MaxRelated)
                              \cup {SixOfThreeDocuments, SixAndOneOnPageOne,
                                    TiedAndOneOnPageOne}
    /\ current_page \in 1..2
    /\ current_section \in {"", "summary of the results"}
    /\ related = <<>>
    /\ OutlineIdle
    /\ RankIdle
    /\ SnipIdle
    /\ RestIdle

\* related = find_related_sections(current_page, current_section, persona, job,
\*                                 all_sections, limit=3)
FindRelated ==
    /\ pc = "related"
    /\ \E base_scores \in
            [1..Len(FilteredPlaces(extracted_sections, current_page)) -> BaseScores] :
          \E r \in {find_related_sections(current_page, current_section,
                                          extracted_sections, base_scores, Limit)} :
             /\ related' = r[1]
             /\ extracted_sections' = r[2]
    /\ pc' = "returned"
    /\ UNCHANGED <<current_page, current_section, outlineVars, rankVars, snipVars, restVars>>

NextRelated == FindRelated

SpecRelated == InitRelated /\ [][NextRelated]_vars

-----------------------------------------------------------------------------
(* document_intelligence.py: extract_subsections                           *)

MaxSnips == 4

\* the end of the run of characters of set cs that starts at place i of s
RECURSIVE RunEnd(_, _, _)
RunEnd(s, i, cs) ==
    IF i <= Len(s) /\ Ch(s, i) \in cs THEN RunEnd(s, i + 1, cs) ELSE i

\* SNIP_SPLIT_RE.match at place i of s: the place after the match, i for no
\* match. The alternatives are tried in the order the pattern gives them.
SNIP_SPLIT_RE(s, i) ==
    IF i > 1 /\ Ch(s, i - 1) \in {".", "!", "?"} /\ isspace(Ch(s, i))
    THEN RunEnd(s, i, SpaceSet)
    ELSE IF Ch(s, i) \in {"\r", "\n"} THEN RunEnd(s, i, {"\r", "\n"})
    ELSE IF Ch(s, i) = "@" THEN i + 1
    ELSE i

\* SNIP_SPLIT_RE.split(s): the pieces between the matches, scanning from place
\* i with the current piece starting at place start
RECURSIVE SplitFrom(_, _, _, _)
SplitFrom(s, i, start, acc) ==
    IF i > Len(s) THEN Append(acc, SubSeq(s, start, Len(s)))
    ELSE IF SNIP_SPLIT_RE(s, i) > i
    THEN SplitFrom(s, SNIP_SPLIT_RE(s, i), SNIP_SPLIT_RE(s, i),
                   Append(acc, SubSeq(s, start, i - 1)))
    ELSE SplitFrom(s, i + 1, start, acc)

Split(s) == SplitFrom(s, 1, 1, <<>>)

\* re.sub(r"^[bullet glyphs]\s*", "", seg)
DeBullet(seg) ==
    IF seg # "" /\ Ch(seg, 1) \in {"@", "-", "*"} THEN lstrip(Tail(seg)) ELSE seg

\* the loop over the split pieces: strip, skip the empty ones, de-bullet
RECURSIVE CandidateParts(_, _)
CandidateParts(segs, n) ==
    IF n = 0 THEN <<>>
    ELSE IF strip(segs[n]) = "" THEN CandidateParts(segs, n - 1)
    ELSE Append(CandidateParts(segs, n - 1), DeBullet(strip(segs[n])))

PartsOf(text) == CandidateParts(Split(text), Len(Split(text)))

\* the orders scores.argsort()[::-1] may give n fragments
Orders(n) == {f \in [1..n -> 1..n] : \A i, j \in 1..n : i # j => f[i] # f[j]}

Selected_All(order, n) == order

\* order[:max_snips]
Selected(order, n) == Take(order, n)

Snippet(section, part) ==
    [document |-> section.doc, refined_text |-> part, page_number |-> section.page]

\* extract_subsections, given the fragments and the order the scores give them
extract_subsections(section, ps, order, n) ==
    IF section.text = "" THEN <<>>
    ELSE IF ps = <<>> THEN <<>>
    ELSE [k \in 1..Len(Selected(order, n)) |-> Snippet(section, ps[Selected(order, n)[k]])]

AlphaBetaGamma == "Alpha. Beta! Gamma?"

SnipTexts ==
    {AlphaBetaGamma,
     "",
     "   ",
     "-",
     "@ first point@ second point",
     "- item one\n- item two\r\n* item three",
     "One. Two.  Three! Four? Five.",
     "Release v1.2 is out.\nSee notes"}

InitSnip ==
    /\ pc = "snip"
    /\ snip_section \in [doc : {"a.pdf", "b.pdf"}, heading : {"Results"},
                         page : 1..2, text : SnipTexts]
    /\ max_snips \in 0..MaxSnips
    /\ parts = <<>>
    /\ snippets = <<>>
    /\ OutlineIdle
    /\ RankIdle
    /\ RelatedIdle
    /\ RestIdle

\* snippets = extract_subsections(section, persona, job, max_snips)
ExtractSubsections ==
    /\ pc = "snip"
    /\ \E ps \in {PartsOf(snip_section.text)} :
          \E order \in Orders(Len(ps)) :
             /\ parts' = ps
             /\ snippets' = extract_subsections(snip_section, ps, order, max_snips)
    /\ pc' = "snipped"
    /\ UNCHANGED <<snip_section, max_snips, outlineVars, rankVars, relatedVars, restVars>>

NextSnip == ExtractSubsections

SpecSnip == InitSnip /\ [][NextSnip]_vars

-----------------------------------------------------------------------------
(* document_intelligence.py: generate_enhanced_relevance_explanation       *)

\* the words scoring.keyword_set may return
Vocabulary == {"risk", "market", "growth"}

\* the orders in which a set of keywords may be enumerated
Listings ==
    {l \in [1..Cardinality(Vocabulary) -> Vocabulary] :
        \A i, j \in 1..Cardinality(Vocabulary) : i # j => l[i] # l[j]}

\* list(S), for the enumeration order listing
list(S, listing) == SelectSeq(listing, LAMBDA w : w \in S)

UpperOf == [c \in LowerSet |-> Ch(UPPER, CHOOSE i \in 1..26 : Ch(LOWER, i) = c)]

upperch(c) == IF c \in LowerSet THEN UpperOf[c] ELSE c

\* str.capitalize(): the first character in upper case, the rest in lower case
capitalize(str) ==
    IF str = "" THEN "" ELSE upperch(Ch(str, 1)) \o lower(Tail(str))

\* generate_relevance_explanation, for the keyword sets of its arguments
generate_relevance_explanation(args, listing) ==
    LET common_persona == args.persona_keywords \cap args.section_keywords
        common_job == args.job_keywords \cap args.section_keywords
    IN  IF common_persona # {} /\ common_job # {}
        THEN "Contains relevant information about "
                \o join(", ", Take(list(common_persona, listing), 2))
                \o " related to your " \o lower(args.job) \o "."
        ELSE IF common_persona # {}
        THEN "Discusses " \o join(", ", Take(list(common_persona, listing), 2))
                \o " which aligns with your role as " \o lower(args.persona) \o "."
        ELSE IF common_job # {}
        THEN "Provides insights relevant to "
                \o join(", ", Take(list(common_job, listing), 2)) \o " for your task."
        ELSE "Contains complementary information that may support your understanding."

\* the primary relevance reason, <<>> when there is none
PrimaryReason(args, common_persona, common_job, common_current, listing) ==
    IF common_persona # {} /\ common_job # {}
    THEN <<"Addresses " \o join(", ", Take(list(common_persona \cup common_job, listing), 3))
              \o " directly relevant to your role and objectives">>
    ELSE IF common_current # {} /\ Cardinality(common_current) >= 2
    THEN <<"Builds upon concepts like " \o join(", ", Take(list(common_current, listing), 2))
              \o " from your current reading">>
    ELSE IF common_persona # {}
    THEN <<"Contains insights about " \o join(", ", Take(list(common_persona, listing), 2))
              \o " relevant to your " \o lower(args.persona) \o " role">>
    ELSE IF common_job # {}
    THEN <<"Provides information about " \o join(", ", Take(list(common_job, listing), 2))
              \o " for your " \o lower(args.job)>>
    ELSE <<>>

DocumentContext(args) ==
    IF args.document # "" /\ args.current_section # ""
          /\ ~contains(lower(args.document), "current document")
    THEN <<"from " \o args.document>> ELSE <<>>

\* the relevance qualifier; relevance_score is in millionths
Qualifier(args) ==
    IF args.relevance_score > 700000 THEN <<"with high contextual relevance">>
    ELSE IF args.relevance_score > 500000 THEN <<"with moderate contextual relevance">>
    ELSE <<>>

ExplanationParts(args, listing) ==
    PrimaryReason(args, args.persona_keywords \cap args.section_keywords,
                  args.job_keywords \cap args.section_keywords,
                  args.current_keywords \cap args.section_keywords, listing)
       \o DocumentContext(args) \o Qualifier(args)

Sentence(str) == IF endswith(str, ".") THEN str ELSE str \o "."

\* generate_enhanced_relevance_explanation, for the keyword sets
\* scoring.keyword_set gives its arguments and the order sets are enumerated in
generate_enhanced_relevance_explanation(args, listing) ==
    IF ExplanationParts(args, listing) # <<>>
    THEN Sentence(capitalize(join(" ", ExplanationParts(args, listing))))
    ELSE generate_relevance_explanation(args, listing)

ExplainArgs ==
    {a \in [persona : {"Analyst"}, job : {"Review"},
            current_section : {"", "market growth"},
            document : {"a.pdf"},
            relevance_score : {400000, 600000, 900000},
            persona_keywords : {{}, {"risk", "market"}},
            job_keywords : {{}, {"growth"}, {"market", "growth"}},
            current_keywords : {{}, {"market", "growth"}},
            section_keywords : {{}, {"risk"}, Vocabulary}] :
        (a.current_section = "") <=> (a.current_keywords = {})}

notExplainVars ==
    <<outlineVars, rankVars, relatedVars, snipVars, batchVars, cacheVars, scoreVars, moreVars>>

InitExplain ==
    /\ pc = "explain"
    /\ explain_args \in ExplainArgs
    /\ explanation = ""
    /\ explanation_again = ""
    /\ OutlineIdle
    /\ RankIdle
    /\ RelatedIdle
    /\ SnipIdle
    /\ BatchIdle
    /\ CacheIdle
    /\ ScoreIdle
    /\ MoreIdle

\* explanation = generate_enhanced_relevance_explanation(section, current_section,
\*                                                       persona, job)
Explain ==
    /\ pc = "explain"
    /\ \E listing \in Listings :
          explanation' = generate_enhanced_relevance_explanation(explain_args, listing)
    /\ pc' = "explained"
    /\ UNCHANGED <<explain_args, explanation_again, notExplainVars>>

\* the same call once more, with equal arguments
ExplainAgain ==
    /\ pc = "explained"
    /\ \E listing \in Listings :
          explanation_again' = generate_enhanced_relevance_explanation(explain_args, listing)
    /\ pc' = "explained again"
    /\ UNCHANGED <<explain_args, explanation, notExplainVars>>

NextExplain == Explain \/ ExplainAgain

SpecExplain == InitExplain /\ [][NextExplain]_vars

-----------------------------------------------------------------------------
(* document_intelligence.py: process_documents_intelligence                *)

MaxBatch == 2

\* os.path.basename(path): what follows the last "/"
RECURSIVE LastSlash(_, _)
LastSlash(path, i) ==
    IF i = 0 THEN 0 ELSE IF Ch(path, i) = "/" THEN i ELSE LastSlash(path, i - 1)

basename(path) == SubSeq(path, LastSlash(path, Len(path)) + 1, Len(path))

Heading18 == [font_size |-> 18000, is_bold |-> TRUE, lead |-> 8]

Body11 == [font_size |-> 11000, is_bold |-> FALSE, lead |-> 1]

\* the files on disk: readable is FALSE for a file fitz.open or a page of it
\* raises on, lines are the lines of a readable one
Files ==
    [path \in {"uploads/a.pdf", "uploads/b.pdf", "uploads/c.pdf",
               "uploads/bad.pdf", "uploads/empty.pdf"} |->
        CASE path = "uploads/a.pdf" ->
                [readable |-> TRUE,
                 lines |-> <<[page |-> 1, text |-> ExecutiveSummary, style |-> Heading18],
                             [page |-> 2, text |-> DashItem, style |-> Body11]>>]
          [] path = "uploads/b.pdf" ->
                [readable |-> TRUE,
                 lines |-> <<[page |-> 1, text |-> DashItem, style |-> Body11]>>]
          [] path = "uploads/c.pdf" ->
                [readable |-> TRUE,
                 lines |-> <<[page |-> 1, text |-> ExecutiveSummary, style |-> Heading18],
                             [page |-> 1, text |-> DashItem, style |-> Body11],
                             [page |-> 2, text |-> PlainSentence, style |-> Body11]>>]
          [] path = "uploads/bad.pdf" -> [readable |-> FALSE, lines |-> <<>>]
          [] OTHER -> [readable |-> TRUE, lines |-> <<>>]]

Paths == DOMAIN Files

\* secs of one loop iteration, for a file extract_outline_blocks returns from
SectionsOfPath(path, r) == build_sections_from_blocks(r[1], r[2], basename(path))

FileSections ==
    [path \in Paths |->
        SectionsOfPath(path,
            extract_outline_blocks(RawLinesOf(Files[path].lines, Len(Files[path].lines))))]

RECURSIVE PathLists(_)
PathLists(n) ==
    IF n = 0 THEN {<<>>}
    ELSE LET shorter == PathLists(n - 1)
         IN  shorter \cup {Append(l, x) : l \in {m \in shorter : Len(m) = n - 1}, x \in Paths}

TopKs == {1, 2, 20}

\* the scores scoring.combined_scores may give a section of the batch
BatchScores == {0, 500000}

Persona == "analyst"

Job == "review the report"

MaxSnipsPerSection == 3

\* [os.path.basename(p) for p in pdf_paths]
Basenames(paths) == [i \in 1..Len(paths) |-> basename(paths[i])]

\* ranked[: min(len(ranked), topk_sections)] that keeps the whole list
TopSections_All(rk, k) == rk

\* ranked[: min(len(ranked), topk_sections)]
TopSections(rk, k) == SubSeq(rk, 1, IF Len(rk) < k THEN Len(rk) ELSE k)

\* the entry of extracted_sections written for a section of top_sections
ExtractedEntry(sec) ==
    Dict(ExtractedKeys, sec.doc, sec.heading, sec.page, 0, sec.score, sec.importance_rank)

\* the values all_sub may have after the loop over the first n of top_sections:
\* one for each order scoring.tfidf_scores may give the fragments of a section
RECURSIVE SubsectionAnalyses(_, _, _)
SubsectionAnalyses(top, n, m) ==
    IF n = 0 THEN {<<>>}
    ELSE {before \o extract_subsections(top[n], PartsOf(top[n].text), order, m) :
            before \in SubsectionAnalyses(top, n - 1, m),
            order \in Orders(Len(PartsOf(top[n].text)))}

\* the dict returned when no section was built: "input_documents": []
EmptyOutput(paths) ==
    [metadata |-> [input_documents |-> <<>>, persona |-> Persona, job_to_be_done |-> Job],
     extracted_sections |-> <<>>,
     subsection_analysis |-> <<>>]

\* the dict returned for top_sections and all_sub
Output(paths, top, all_sub) ==
    [metadata |-> [input_documents |-> Basenames(paths), persona |-> Persona,
                   job_to_be_done |-> Job],
     extracted_sections |-> [i \in 1..Len(top) |-> ExtractedEntry(top[i])],
     subsection_analysis |-> all_sub]

InitBatch ==
    /\ pc = "batch"
    /\ pdf_paths \in PathLists(MaxBatch)
    /\ path_idx = 0
    /\ topk_sections \in TopKs
    /\ out = NoResult
    /\ all_sections = <<>>
    /\ ranked = <<>>
    /\ extracted_sections = <<>>
    /\ current_page \in 1..2
    /\ current_section = ""
    /\ related = <<>>
    /\ OutlineIdle
    /\ SnipIdle
    /\ LaterIdle

\* an iteration whose extract_outline_blocks raises and that leaves the loop
DocumentFails_Aborts ==
    /\ pc = "batch"
    /\ path_idx < Len(pdf_paths)
    /\ ~Files[pdf_paths[path_idx + 1]].readable
    /\ path_idx' = Len(pdf_paths)
    /\ UNCHANGED <<pc, pdf_paths, topk_sections, out, outlineVars, rankVars, relatedVars, snipVars, laterVars>>

\* one iteration of the loop over pdf_paths whose extract_outline_blocks raises
DocumentFails ==
    /\ pc = "batch"
    /\ path_idx < Len(pdf_paths)
    /\ ~Files[pdf_paths[path_idx + 1]].readable
    /\ path_idx' = path_idx + 1
    /\ UNCHANGED <<pc, pdf_paths, topk_sections, out, outlineVars, rankVars, relatedVars, snipVars, laterVars>>

\* one iteration of the loop over pdf_paths: all_sections.extend(secs)
ProcessDocument ==
    /\ pc = "batch"
    /\ path_idx < Len(pdf_paths)
    /\ Files[pdf_paths[path_idx + 1]].readable
    /\ all_sections' = all_sections \o FileSections[pdf_paths[path_idx + 1]]
    /\ path_idx' = path_idx + 1
    /\ UNCHANGED <<pc, pdf_paths, topk_sections, out, ranked, outlineVars, relatedVars, snipVars, laterVars>>

\* process_documents_intelligence after the loop, with no section built
ReturnEmpty ==
    /\ pc = "batch"
    /\ path_idx = Len(pdf_paths)
    /\ all_sections = <<>>
    /\ out' = EmptyOutput(pdf_paths)
    /\ extracted_sections' = out'.extracted_sections
    /\ pc' = "related"
    /\ UNCHANGED <<pdf_paths, path_idx, topk_sections, all_sections, ranked, current_page,
                   current_section, related, outlineVars, snipVars, laterVars>>

\* process_documents_intelligence after the loop: rank, select the top K, take
\* the snippets and build the output; the caller then reads extracted_sections
RankAndReturn ==
    /\ pc = "batch"
    /\ path_idx = Len(pdf_paths)
    /\ all_sections # <<>>
    /\ \E scores \in [1..Len(all_sections) -> BatchScores] :
          \E rk \in {rank_sections(all_sections, scores)} :
             \E all_sub \in SubsectionAnalyses(TopSections(rk, topk_sections),
                                Len(TopSections(rk, topk_sections)), MaxSnipsPerSection) :
                /\ ranked' = rk
                /\ out' = Output(pdf_paths, TopSections(rk, topk_sections), all_sub)
                /\ extracted_sections' = out'.extracted_sections
    /\ pc' = "related"
    /\ UNCHANGED <<pdf_paths, path_idx, topk_sections, all_sections, current_page,
                   current_section, related, outlineVars, snipVars, laterVars>>

NextBatch == DocumentFails \/ ProcessDocument \/ ReturnEmpty \/ RankAndReturn \/ FindRelated

SpecBatch == InitBatch /\ [][NextBatch]_vars

-----------------------------------------------------------------------------
(* main.py: analysis_cache of /analyze-documents and /related-sections      *)

MaxCached == 2

\* documents_store as the uploads left it: the ids of the uploaded documents and
\* their file paths
documents_store ==
    [doc_id \in {"d1", "d2"} |-> [file_path |-> "uploads/" \o doc_id \o ".pdf"]]

Requests ==
    [document_ids : {<<"d1">>, <<"d1", "d2">>, <<"d9">>},
     persona : {"risk", "risk_analyst"},
     job_to_be_done : {"review", "analyst_review"}]

\* f"{'-'.join(request.document_ids)}_{request.persona}_{request.job_to_be_done}"
cache_key(req) ==
    join("-", req.document_ids) \o "_" \o req.persona \o "_" \o req.job_to_be_done

AllStored(req) == \A i \in 1..Len(req.document_ids) : req.document_ids[i] \in DOMAIN store

PathsOf(req) == [i \in 1..Len(req.document_ids) |-> store[req.document_ids[i]].file_path]

\* the result of process_documents_intelligence for the request, of which the
\* metadata is kept: sections are built for every stored document of the pool
AnalysisOf(req) ==
    [metadata |-> [input_documents |-> Basenames(PathsOf(req)),
                   persona |-> req.persona,
                   job_to_be_done |-> req.job_to_be_done]]

\* analysis_cache[key] = result
Cached(cache, key, result) ==
    [k \in DOMAIN cache \cup {key} |-> IF k = key THEN result ELSE cache[k]]

notCacheVars ==
    <<outlineVars, rankVars, relatedVars, snipVars, batchVars, explainVars, scoreVars, moreVars>>

InitCache ==
    /\ pc = "serving"
    /\ analysis_cache = <<>>
    /\ request = NoRequest
    /\ analysis_result = NoAnalysis
    /\ store = documents_store
    /\ OutlineIdle
    /\ RankIdle
    /\ RelatedIdle
    /\ SnipIdle
    /\ BatchIdle
    /\ ExplainIdle
    /\ ScoreIdle
    /\ MoreIdle

\* 404 for a request naming a document that is not stored: /analyze-documents
\* always, /related-sections when the key of the request is not cached either
NotFound ==
    /\ \E req \in Requests :
          /\ ~AllStored(req)
          /\ request' = req
    /\ pc' = "not found"
    /\ UNCHANGED <<analysis_cache, analysis_result, store, notCacheVars>>

\* POST /analyze-documents
analyze_documents ==
    /\ \E req \in Requests :
          /\ AllStored(req)
          /\ Cardinality(DOMAIN analysis_cache \cup {cache_key(req)}) <= MaxCached
          /\ request' = req
          /\ analysis_result' = AnalysisOf(req)
          /\ analysis_cache' = Cached(analysis_cache, cache_key(req), AnalysisOf(req))
    /\ pc' = "analyzed"
    /\ UNCHANGED <<store, notCacheVars>>

\* POST /related-sections, as far as analysis_result = analysis_cache[cache_key]
get_related_sections ==
    /\ \E req \in Requests :
          /\ cache_key(req) \in DOMAIN analysis_cache \/ AllStored(req)
          /\ Cardinality(DOMAIN analysis_cache \cup {cache_key(req)}) <= MaxCached
          /\ request' = req
          /\ analysis_cache' =
                IF cache_key(req) \in DOMAIN analysis_cache THEN analysis_cache
                ELSE Cached(analysis_cache, cache_key(req), AnalysisOf(req))
          /\ analysis_result' = analysis_cache'[cache_key(req)]
    /\ pc' = "related read"
    /\ UNCHANGED <<store, notCacheVars>>

NextCache == NotFound \/ analyze_documents \/ get_related_sections

SpecCache == InitCache /\ [][NextCache]_vars

\* the ids a DELETE /documents/{doc_id} may name
DocIds == {"d1", "d2", "d9"}

\* del documents_store[doc_id]
Without(st, doc_id) == [k \in DOMAIN st \ {doc_id} |-> st[k]]

\* DELETE /documents/{doc_id} of a stored document: its file and its entry of
\* documents_store are removed
delete_document ==
    /\ \E doc_id \in DocIds :
          /\ doc_id \in DOMAIN store
          /\ store' = Without(store, doc_id)
    /\ pc' = "deleted"
    /\ UNCHANGED <<analysis_cache, request, analysis_result, notCacheVars>>

\* DELETE /documents/{doc_id} of a document that is not stored: 404
DeleteNotFound ==
    /\ \E doc_id \in DocIds : doc_id \notin DOMAIN store
    /\ pc' = "delete not found"
    /\ UNCHANGED <<cacheVars, notCacheVars>>

NextDelete ==
    \/ NotFound
    \/ analyze_documents
    \/ get_related_sections
    \/ delete_document
    \/ DeleteNotFound

SpecDelete == InitCache /\ [][NextDelete]_vars

-----------------------------------------------------------------------------
(* main.py: two /related-sections requests served from one cached analysis *)

InitCalls ==
    /\ pc = "related"
    /\ extracted_sections \in RelatedLists(MaxRelated)
    /\ current_page \in 1..2
    /\ current_section \in {"", "summary of the results"}
    /\ related = <<>>
    /\ OutlineIdle
    /\ RankIdle
    /\ SnipIdle
    /\ RestIdle

\* the next request for the same document ids, persona and job: the handler
\* reads the same list out of analysis_cache
NextRequest ==
    /\ pc = "returned"
    /\ current_page' \in 1..2
    /\ current_section' \in {"", "summary of the results"}
    /\ related' = <<>>
    /\ pc' = "related again"
    /\ UNCHANGED <<extracted_sections, outlineVars, rankVars, snipVars, restVars>>

\* related = find_related_sections(...) of the next request
FindRelatedAgain ==
    /\ pc = "related again"
    /\ \E base_scores \in
            [1..Len(FilteredPlaces(extracted_sections, current_page)) -> BaseScores] :
          \E r \in {find_related_sections(current_page, current_section,
                                          extracted_sections, base_scores, Limit)} :
             /\ related' = r[1]
             /\ extracted_sections' = r[2]
    /\ pc' = "returned again"
    /\ UNCHANGED <<current_page, current_section, outlineVars, rankVars, snipVars, restVars>>

NextCalls == FindRelated \/ NextRequest \/ FindRelatedAgain

SpecCalls == InitCalls /\ [][NextCalls]_vars

-----------------------------------------------------------------------------
(* outline_core.py: _score_line on a line of its own                       *)

olderVars ==
    <<outlineVars, rankVars, relatedVars, snipVars, batchVars, explainVars, cacheVars, scoreVars>>

OlderIdle ==
    /\ OutlineIdle /\ RankIdle /\ RelatedIdle /\ SnipIdle
    /\ BatchIdle /\ ExplainIdle /\ CacheIdle /\ ScoreIdle

\* the largest font rank the line is scored at
MaxRank == 8

NumberedSubsection == "1.1 Scope"
NumberedNoDot == "2 Scope"
LetteredScope == "A. Scope"
RomanScope == "IV. Scope"
ParenScope == "(a) Scope"

LineTexts ==
    {NumberedScope, NumberedSubsection, NumberedNoDot, LetteredScope, RomanScope,
     ParenScope, ExecutiveSummary}

GapsAbove == {0, 2, 4, 8}

notLineVars == <<olderVars, spanVars, factVars, pdfVars>>

InitLine ==
    /\ pc = "line"
    /\ line \in [text : LineTexts, is_bold : BOOLEAN, gap_above : GapsAbove]
    /\ rank_scores = <<>>
    /\ OlderIdle
    /\ SpanIdle
    /\ FactIdle
    /\ PdfIdle

\* _score_line(b.text, b.caps_ratio, b.font_rank, b.is_bold, gap) for the line at
\* each font rank 0..MaxRank
ScoreLine ==
    /\ pc = "line"
    /\ rank_scores' = [r \in 0..MaxRank |->
                          _score_line(line.text, _caps_ratio(line.text), r,
                                      line.is_bold, line.gap_above)]
    /\ pc' = "line scored"
    /\ UNCHANGED <<line, notLineVars>>

\* the same call for another line
NextLine ==
    /\ pc = "line scored"
    /\ line' \in [text : LineTexts, is_bold : BOOLEAN, gap_above : GapsAbove]
    /\ rank_scores' = <<>>
    /\ pc' = "line"
    /\ UNCHANGED notLineVars

NextScoreLine == ScoreLine \/ NextLine

SpecLine == InitLine /\ [][NextScoreLine]_vars

-----------------------------------------------------------------------------
(* outline_core.py: _extract_page_lines on a page of one line              *)

\* the most spans the line has
MaxSpans == 2

\* re.sub(r"\s+", " ", t) from character i on
RECURSIVE Collapse(_, _)
Collapse(t, i) ==
    IF i > Len(t) THEN ""
    ELSE IF isspace(Ch(t, i))
    THEN (IF i > 1 /\ isspace(Ch(t, i - 1)) THEN "" ELSE " ") \o Collapse(t, i + 1)
    ELSE Ch(t, i) \o Collapse(t, i + 1)

_clean_space(t) == strip(Collapse(t, 1))

bold_indicators ==
    {"bold", "black", "semibold", "demibold", "heavy", "extrabold",
     "ultrabold", "thick", "dark", "medium", "semib", "demi"}

_is_bold_font(font_name) ==
    \E indicator \in bold_indicators : contains(lower(font_name), indicator)

\* font_flags & (1 << 4)
BoldFlag(font_flags) == (font_flags \div 16) % 2 = 1

\* what one span adds to bold_weight, in halves
SpanBoldWeight(sp) ==
      (IF _is_bold_font(sp.font) THEN 4 ELSE 0)
    + (IF BoldFlag(sp.flags) THEN 4 ELSE 0)
    + (IF sp.weight >= 600 THEN 2 ELSE IF sp.weight >= 500 THEN 1 ELSE 0)

\* bold_weight after the loop over the first n spans, in halves
RECURSIVE BoldWeight(_, _)
BoldWeight(sps, n) ==
    IF n = 0 THEN 0 ELSE BoldWeight(sps, n - 1) + SpanBoldWeight(sps[n])

\* is_bold = bold_weight >= 1
IsBoldLine(sps) == BoldWeight(sps, Len(sps)) >= 2

\* parts: the non-empty span texts, in order
RECURSIVE SpanTexts(_)
SpanTexts(sps) ==
    IF sps = <<>> THEN <<>>
    ELSE (IF Head(sps).text # "" THEN <<Head(sps).text>> ELSE <<>>) \o SpanTexts(Tail(sps))

SetMax(S) == CHOOSE m \in S : \A x \in S : x <= m

\* the tuple appended for the line: text, bbox, is_bold, max_sz
PageLine(sps) ==
    [text |-> _clean_space(join(" ", SpanTexts(sps))),
     bbox |-> <<SetMin({sps[n].bbox[1] : n \in 1..Len(sps)}),
                SetMin({sps[n].bbox[2] : n \in 1..Len(sps)}),
                SetMax({sps[n].bbox[3] : n \in 1..Len(sps)}),
                SetMax({sps[n].bbox[4] : n \in 1..Len(sps)})>>,
     is_bold |-> IsBoldLine(sps),
     max_sz |-> SetMax({0} \cup {sps[n].size : n \in 1..Len(sps)})]

\* _extract_page_lines of a page whose one text block has one line of spans sps
_extract_page_lines(sps) ==
    IF sps = <<>> THEN <<>>
    ELSE IF _clean_space(join(" ", SpanTexts(sps))) = "" THEN <<>>
    ELSE <<PageLine(sps)>>

\* a span as page.get_text("dict") gives it; weight 400 when the key is absent
FontPool ==
    {[font |-> "Helvetica", size |-> 11000], [font |-> "Helvetica-Bold", size |-> 18000]}

FlagPool == {0, 4, 16}

WeightPool == {400, 500, 600}

SpanTextPool == {"", "Total  due "}

\* the n-th span of a line: its box follows from its place and size
Span(n, f, flags, weight, text) ==
    [text |-> text, size |-> f.size, font |-> f.font, flags |-> flags, weight |-> weight,
     bbox |-> <<50 * (n - 1), 0, 50 * n, f.size \div 1000>>]

RECURSIVE SpanLists(_)
SpanLists(n) ==
    IF n = 0 THEN {<<>>}
    ELSE LET shorter == SpanLists(n - 1)
         IN  shorter \cup
             {Append(l, Span(n, f, fl, w, t)) :
                l \in {m \in shorter : Len(m) = n - 1},
                f \in FontPool, fl \in FlagPool, w \in WeightPool, t \in SpanTextPool}

notSpanVars == <<olderVars, lineVars, factVars, pdfVars>>

InitSpans ==
    /\ pc = "page"
    /\ spans \in SpanLists(MaxSpans)
    /\ page_lines = <<>>
    /\ OlderIdle
    /\ LineIdle
    /\ FactIdle
    /\ PdfIdle

\* _extract_page_lines(page)
ExtractPageLines ==
    /\ pc = "page"
    /\ page_lines' = _extract_page_lines(spans)
    /\ pc' = "page read"
    /\ UNCHANGED <<spans, notSpanVars>>

NextSpans == ExtractPageLines

SpecSpans == InitSpans /\ [][NextSpans]_vars

-----------------------------------------------------------------------------
(* content_analyzer.py: generate_fact_for_current_page, called concurrently *)

\* the coroutines that may be in generate_fact_for_current_page at a time
Callers == 1..2

\* the most calls made in all
MaxFactCalls == 3

FactDocIds == {"d1"}

FactPages == 1..2

PageTexts == {"", "Photosynthesis converts light."}

\* None, as a fact
NoFact == [fact |-> "", page_number |-> 0]

\* the facts generate_external_fact may parse out of the model's answer
FactTexts == {"Did you know that A?", "Did you know that B?"}

Idle == [at |-> "idle", document_id |-> "", page_number |-> 0, page_text |-> "", ret |-> NoFact]

\* get_facts_for_page
get_facts_for_page(cache, document_id, page_number) ==
    IF document_id \notin DOMAIN cache THEN <<>>
    ELSE IF page_number \notin DOMAIN cache[document_id] THEN <<>>
    ELSE cache[document_id][page_number]

\* lines 166-172: the fact appended to the list of the page, the dict of the
\* document and the list of the page made when missing
WithFact(cache, document_id, page_number, fact) ==
    [d \in DOMAIN cache \cup {document_id} |->
        IF d = document_id
        THEN [pg \in (IF d \in DOMAIN cache THEN DOMAIN cache[d] ELSE {}) \cup {page_number} |->
                IF pg = page_number
                THEN Append(get_facts_for_page(cache, document_id, page_number), fact)
                ELSE cache[d][pg]]
        ELSE cache[d]]

\* what generate_fact_for_page_content may return for the page: None for a blank
\* page_text, else None or a fact with its page_number set
GeneratedFacts(page_text, page_number) ==
    IF strip(page_text) = "" THEN {NoFact}
    ELSE {NoFact} \cup {[fact |-> t, page_number |-> page_number] : t \in FactTexts}

notFactVars == <<olderVars, lineVars, spanVars, pdfVars>>

InitFacts ==
    /\ pc = "facts"
    /\ page_facts_cache = <<>>
    /\ model_available \in BOOLEAN
    /\ callers = [c \in Callers |-> Idle]
    /\ generator_calls = 0
    /\ OlderIdle
    /\ LineIdle
    /\ SpanIdle
    /\ PdfIdle

\* generate_fact_for_current_page from its entry to its first await or, when
\* the generator is not available or a fact is cached, to its return
CallFact(c) ==
    /\ callers[c].at \in {"idle", "returned"}
    /\ Cardinality({k \in Callers : callers[k].at = "generating"}) + generator_calls
          < MaxFactCalls
    /\ \E document_id \in FactDocIds, page_number \in FactPages, page_text \in PageTexts :
          LET existing_facts == get_facts_for_page(page_facts_cache, document_id, page_number)
              call == [document_id |-> document_id, page_number |-> page_number,
                       page_text |-> page_text]
          IN  IF ~model_available
              THEN callers' = [callers EXCEPT ![c] = call @@ [at |-> "returned", ret |-> NoFact]]
              ELSE IF existing_facts # <<>>
              THEN callers' = [callers EXCEPT
                                 ![c] = call @@ [at |-> "returned", ret |-> existing_facts[1]]]
              ELSE callers' = [callers EXCEPT ![c] = call @@ [at |-> "generating", ret |-> NoFact]]
    /\ UNCHANGED <<pc, page_facts_cache, model_available, generator_calls, notFactVars>>

\* generate_fact_for_current_page from the return of the awaited
\* generate_fact_for_page_content to its own return
FactGenerated(c) ==
    /\ callers[c].at = "generating"
    /\ \E fact \in GeneratedFacts(callers[c].page_text, callers[c].page_number) :
          /\ page_facts_cache' =
                IF fact # NoFact
                THEN WithFact(page_facts_cache, callers[c].document_id,
                              callers[c].page_number, fact)
                ELSE page_facts_cache
          /\ callers' = [callers EXCEPT ![c].at = "returned", ![c].ret = fact]
    /\ generator_calls' = generator_calls + 1
    /\ UNCHANGED <<pc, model_available, notFactVars>>

NextFacts == \E c \in Callers : CallFact(c) \/ FactGenerated(c)

SpecFacts == InitFacts /\ [][NextFacts]_vars

-----------------------------------------------------------------------------
(* pdf_analyzer.py: the doc_title, the headings and the outline of a PDF       *)

MaxBlocks == 2

\* re.match(r'^\s*Page\s+\d+\s*$', text, re.IGNORECASE)
IsPageNumberLine(text) ==
    LET a == Run(text, 1, SpaceSet)
        b == Run(text, a + 5, SpaceSet)
        c == Run(text, a + 5 + b, DigitSet)
        d == Run(text, a + 5 + b + c, SpaceSet)
    IN  /\ Len(text) >= a + 4
        /\ lower(SubSeq(text, a + 1, a + 4)) = "page"
        /\ b >= 1
        /\ c >= 1
        /\ a + 4 + b + c + d = Len(text)

\* re.match(r'^\s*\d+\s*$', text)
IsNumberLine(text) ==
    LET a == Run(text, 1, SpaceSet)
        c == Run(text, a + 1, DigitSet)
        d == Run(text, a + 1 + c, SpaceSet)
    IN  c >= 1 /\ a + c + d = Len(text)

\* the position after k dot-separated numbers that start at i, 0 when there are none
RECURSIVE DottedEnd(_, _, _)
DottedEnd(text, i, k) ==
    LET d == Run(text, i, DigitSet)
    IN  IF d = 0 THEN 0
        ELSE IF k = 1 THEN i + d
        ELSE IF CharAt(text, i + d) = "." THEN DottedEnd(text, i + d + 1, k - 1)
        ELSE 0

\* re.match(r'^\d+(\.\d+){k-1}\s', text)
MatchesDotted(text, k) ==
    LET e == DottedEnd(text, 1, k)
    IN  e > 0 /\ isspace(CharAt(text, e))

\* re.match(r'^[set]+\.\s', text)
MatchesRunDot(text, set) ==
    LET d == Run(text, 1, set)
    IN  d >= 1 /\ CharAt(text, d + 1) = "." /\ isspace(CharAt(text, d + 2))

\* re.match(r'^[set]\.\s', text)
MatchesOneDot(text, set) ==
    CharAt(text, 1) \in set /\ CharAt(text, 2) = "." /\ isspace(CharAt(text, 3))

\* re.match(r'^\(\d+\)\s', text)
MatchesParenNumber(text) ==
    LET d == Run(text, 2, DigitSet)
    IN  /\ CharAt(text, 1) = "("
        /\ d >= 1
        /\ CharAt(text, 2 + d) = ")"
        /\ isspace(CharAt(text, 3 + d))

\* re.match(r'^\([a-z]\)\s', text)
MatchesParenLetter(text) ==
    /\ CharAt(text, 1) = "("
    /\ CharAt(text, 2) \in LowerSet
    /\ CharAt(text, 3) = ")"
    /\ isspace(CharAt(text, 4))

\* the numbered, roman, lettered and parenthesised patterns, first match wins
PatternLevel(text) ==
    LET words == WordCount(text)
    IN  IF MatchesDotted(text, 4) THEN "H4"
        ELSE IF MatchesDotted(text, 3) THEN "H3"
        ELSE IF MatchesDotted(text, 2) THEN "H2"
        ELSE IF MatchesRunDot(text, DigitSet) /\ words > 1 THEN "H1"
        ELSE IF MatchesRunDot(text, {"I", "V", "X"}) /\ words > 1 THEN "H1"
        ELSE IF MatchesRunDot(text, {"i", "v", "x"}) /\ words > 1 THEN "H2"
        ELSE IF MatchesOneDot(text, UpperSet) /\ words > 1 THEN "H2"
        ELSE IF MatchesOneDot(text, LowerSet) /\ words > 1 THEN "H3"
        ELSE IF MatchesParenNumber(text) /\ words > 1 THEN "H3"
        ELSE IF MatchesParenLetter(text) /\ words > 1 THEN "H4"
        ELSE "None"

\* ':' in text and len(text.split(':')[-1].strip().split()) > 6
LongAfterColon(text) ==
    LET colons == {i \in 1..Len(text) : Ch(text, i) = ":"}
    IN  /\ colons # {}
        /\ WordCount(SubSeq(text, SetMax(colons) + 1, Len(text))) > 6

\* text.isupper()
IsUpperText(text) == CountIn(text, UpperSet) >= 1 /\ CountIn(text, LowerSet) = 0

\* text.istitle()
IsTitleText(text) ==
    /\ \E i \in 1..Len(text) : isalpha(Ch(text, i))
    /\ \A i \in 1..Len(text) :
          /\ isupper(Ch(text, i)) => ~isalpha(CharAt(text, i - 1))
          /\ islower(Ch(text, i)) => isalpha(CharAt(text, i - 1))

\* font_size_counts[size]
SizeCount(blks, size) ==
    Cardinality({j \in 1..Len(blks) : Round2(blks[j].font_size) = size})

\* sorted(font_size_counts.items(), key=lambda item: item[1], reverse=True)[0][0]:
\* the most frequent rounded size, the one met first among equally frequent ones
BodyTextSize(blks) ==
    LET most == SetMax({SizeCount(blks, s) : s \in UniqSizes(blks)})
        first == SetMin({j \in 1..Len(blks) :
                            SizeCount(blks, Round2(blks[j].font_size)) = most})
    IN  Round2(blks[first].font_size)

levels == <<"H1", "H2", "H3", "H4">>

\* get_heading_hierarchy(text_blocks): size_to_level_map
get_heading_hierarchy(blks) ==
    IF blks = <<>> THEN <<>>
    ELSE LET body == BodyTextSize(blks)
             heading_candidates ==
                 {s \in UniqSizes(blks) :
                     /\ s * 10 > body * 11
                     /\ SizeCount(blks, s) * 10 < Len(blks)}
             place(s) == Cardinality({c \in heading_candidates : c >= s})
         IN  [s \in {c \in heading_candidates : place(c) <= Len(levels)} |->
                 levels[place(s)]]

\* the loop of get_pdf_title over the potential title lines, from the i-th on
RECURSIVE TitleLines(_, _, _, _)
TitleLines(potential, i, title_lines, last_y) ==
    IF i > Len(potential) THEN title_lines
    ELSE LET block == potential[i]
             text == strip(block.text)
         IN  IF Len(text) < 10 \/ lower(text) = text
             THEN TitleLines(potential, i + 1, title_lines, last_y)
             ELSE IF title_lines = <<>> \/ (block.bbox[2] - last_y < 25
                                            /\ last_y - block.bbox[2] < 25)
             THEN TitleLines(potential, i + 1, Append(title_lines, text), block.bbox[4])
             ELSE title_lines

\* the elements of l the test keeps, in the order of l
Kept(l, Test(_)) == SelectSeq(l, Test)

\* get_pdf_title(text_blocks)
get_pdf_title(blks) ==
    LET OnFirstPage(b) == b.page = 0
        first_page_blocks == Kept(blks, OnFirstPage)
        by_size == Items(SortDesc([k \in 1..Len(first_page_blocks) |->
                                      [score |-> first_page_blocks[k].font_size * 1000
                                                 + first_page_blocks[k].bbox[2],
                                       item |-> first_page_blocks[k]]],
                                  Len(first_page_blocks)))
        max_font_size == by_size[1].font_size
        Potential(b) == b.font_size * 10 >= max_font_size * 9 /\ b.bbox[2] < 400
        potential == Kept(by_size, Potential)
        by_y == Items(SortDesc([k \in 1..Len(potential) |->
                                   [score |-> 0 - potential[k].bbox[2],
                                    item |-> potential[k]]],
                               Len(potential)))
    IN  IF first_page_blocks = <<>> THEN ""
        ELSE strip(join(" ", TitleLines(by_y, 1, <<>>, -1)))

\* is_form_pdf(text_blocks)
is_form_pdf(blks) ==
    /\ Len(blks) <= 300
    /\ Len(blks) >= 20
    /\ Cardinality({j \in 1..Len(blks) : WordCount(blks[j].text) <= 5}) * 2
          > Len(blks)

\* the font-size rule of detect_headings
FontLevel(text, font_size, body) ==
    LET words == WordCount(text)
    IN  IF IsUpperText(text) /\ 1 <= words /\ words <= 12
        THEN (IF font_size * 100 > body * 105 THEN "H1" ELSE "H2")
        ELSE IF font_size * 100 > body * 115 /\ 1 <= words /\ words <= 15 THEN "H1"
        ELSE IF font_size * 100 > body * 108 /\ 1 <= words /\ words <= 15 THEN "H2"
        ELSE IF font_size * 100 > body * 102 /\ 1 <= words /\ words <= 12 THEN "H3"
        ELSE "None"

\* the bold rule of detect_headings and its branch for text that is not bold
BoldLevel(text, font_size, body, is_bold) ==
    LET words == WordCount(text)
    IN  IF is_bold /\ 1 <= words /\ words <= 25
        THEN (IF font_size * 100 >= body * 115 THEN "H1"
              ELSE IF font_size * 100 >= body * 105 THEN "H2"
              ELSE IF font_size * 100 >= body * 95 THEN "H3"
              ELSE IF isupper(Ch(text, 1)) /\ 3 <= words /\ words <= 15 THEN "H3"
              ELSE "None")
        ELSE IF ~is_bold /\ font_size * 100 >= body * 101
                /\ 1 <= words /\ words <= 20 /\ lower(text) # text
                /\ isupper(Ch(text, 1)) /\ 8 <= Len(text) /\ Len(text) <= 100
        THEN "H3"
        ELSE "None"

ChapterWords == {"chapter", "section", "part", "appendix", "article", "unit"}

SummaryWords ==
    {"summary", "conclusion", "introduction", "abstract", "overview", "background",
     "methodology", "results", "discussion", "references", "bibliography",
     "acknowledgments"}

\* the rule of detect_headings for the common heading styles
StyleLevel(text, font_size, body) ==
    LET words == WordCount(text)
    IN  IF \E w \in ChapterWords :
              /\ startswith(lower(text), w)
              /\ Run(text, Len(w) + 1, SpaceSet) >= 1
              /\ isdigit(CharAt(text, Len(w) + 1 + Run(text, Len(w) + 1, SpaceSet)))
        THEN "H1"
        ELSE IF \E w \in SummaryWords : startswith(lower(text), w) THEN "H1"
        ELSE IF endswith(text, "?") /\ 3 <= words /\ words <= 15 THEN "H3"
        ELSE IF IsTitleText(text) /\ 2 <= words /\ words <= 12 /\ font_size >= body
        THEN "H3"
        ELSE IF endswith(text, ":") /\ 1 <= words /\ words <= 8 /\ font_size >= body
        THEN "H3"
        ELSE "None"

\* the font-size rule where the patterns gave no level
FontStep(level, text, font_size, body) ==
    IF level = "None" /\ font_size >= body THEN FontLevel(text, font_size, body)
    ELSE level

\* the size_to_level_map rule where no level is given yet
MappedStep(level, text, font_size, size_to_level_map) ==
    IF /\ level = "None"
       /\ font_size \in DOMAIN size_to_level_map
       /\ Len(text) < 120
       /\ CountIn(text, {"."}) < 4
       /\ CountIn(text, {" "}) < 25
    THEN size_to_level_map[font_size] ELSE level

\* the bold rule where no level is given yet
BoldStep(level, text, font_size, body, is_bold) ==
    IF level = "None" THEN BoldLevel(text, font_size, body, is_bold) ELSE level

\* the heading-style rule where no level is given yet
StyleStep(level, text, font_size, body) ==
    IF level = "None" THEN StyleLevel(text, font_size, body) ELSE level

\* the position hint where no level is given yet
PositionStep(level, text, font_size, body, bbox) ==
    IF /\ level = "None"
       /\ font_size * 100 >= body * 98
       /\ bbox[2] < 150
       /\ 2 <= WordCount(text) /\ WordCount(text) <= 15
       /\ isupper(Ch(text, 1))
    THEN "H3" ELSE level

\* the level the rules give to a text, one rule after the other
RuleLevel(text, font_size, body, size_to_level_map, is_bold, bbox) ==
    PositionStep(
        StyleStep(
            BoldStep(
                MappedStep(
                    FontStep(PatternLevel(text), text, font_size, body),
                    text, font_size, size_to_level_map),
                text, font_size, body, is_bold),
            text, font_size, body),
        text, font_size, body, bbox)

\* the lines the loop of detect_headings leaves before or after the rules
Skipped(text, font_size, doc_title, size_to_level_map) ==
    \/ text = doc_title
    \/ contains(doc_title, text)
    \/ IsPageNumberLine(text)
    \/ IsNumberLine(text)
    \/ /\ DOMAIN size_to_level_map # {}
       /\ Len(text) > 150
       /\ font_size < SetMax(DOMAIN size_to_level_map)
    \/ LongAfterColon(text)
    \/ Len(text) < 2

\* the level detect_headings gives to a block: "Skip" where the loop continues
\* without one, "None" where no rule gives one
LevelOf(block, doc_title, size_to_level_map, body) ==
    IF Skipped(strip(block.text), Round2(block.font_size), doc_title, size_to_level_map)
    THEN "Skip"
    ELSE RuleLevel(strip(block.text), Round2(block.font_size), body,
                   size_to_level_map, block.is_bold, block.bbox)

\* text.rstrip(" .")
RECURSIVE rstrip_dots(_)
rstrip_dots(s) ==
    IF s # "" /\ Ch(s, Len(s)) \in {" ", "."}
    THEN rstrip_dots(SubSeq(s, 1, Len(s) - 1)) ELSE s

\* the outline entry of a detected heading, with the page made 1-based
HeadingEntry(block, level) ==
    [level |-> level, text |-> rstrip_dots(strip(block.text)), page |-> block.page + 1]

\* the level of each block
LevelsOf(blks, doc_title) ==
    [j \in 1..Len(blks) |->
        LevelOf(blks[j], doc_title, get_heading_hierarchy(blks), BodyTextSize(blks))]

\* the blocks appended to the outline: those given a level whose text was not
\* appended for the same page before
Appended(blks, lv) ==
    {j \in 1..Len(blks) :
        /\ lv[j] \notin {"Skip", "None"}
        /\ ~\E i \in 1..(j - 1) :
              /\ lv[i] \notin {"Skip", "None"}
              /\ strip(blks[i].text) = strip(blks[j].text)
              /\ blks[i].page = blks[j].page}

\* the k-th smallest element of a set of numbers
Nth(S, k) == CHOOSE j \in S : Cardinality({i \in S : i <= j}) = k

\* the outline entries of the appended blocks, in the order of the blocks
OutlineOf(blks, lv, appended) ==
    [k \in 1..Cardinality(appended) |->
        HeadingEntry(blks[Nth(appended, k)], lv[Nth(appended, k)])]

LargeBlock(b) == b.font_size > 15000 /\ WordCount(b.text) > 2

\* detect_headings(text_blocks, title)
detect_headings(blks, doc_title) ==
    IF blks = <<>> THEN <<>>
    ELSE IF is_form_pdf(blks) /\ Kept(blks, LargeBlock) = <<>> THEN <<>>
    ELSE OutlineOf(blks, LevelsOf(blks, doc_title),
                    Appended(blks, LevelsOf(blks, doc_title)))

\* the outline analyze_pdf puts in place of an empty one: the largest line of
\* the first page, when it is not the title
FallbackOutline(blks, doc_title) ==
    LET OnFirstPage(b) == b.page = 0
        first_page_blocks == Kept(blks, OnFirstPage)
        top == SetMax({first_page_blocks[k].font_size : k \in 1..Len(first_page_blocks)})
        largest == first_page_blocks[SetMin({k \in 1..Len(first_page_blocks) :
                                                first_page_blocks[k].font_size = top})]
    IN  IF first_page_blocks = <<>> THEN <<>>
        ELSE IF strip(largest.text) # "" /\ strip(largest.text) # doc_title
        THEN <<[level |-> "H1", text |-> strip(largest.text), page |-> 0]>>
        ELSE <<>>

\* analyze_pdf(pdf_path) once the text blocks are read; doc_language is what
\* langdetect says
analyze_pdf(blks, doc_language) ==
    LET doc_title == get_pdf_title(blks)
        outline == detect_headings(blks, doc_title)
    IN  [title |-> doc_title,
         outline |-> IF outline = <<>> /\ blks # <<>>
                     THEN FallbackOutline(blks, doc_title) ELSE outline,
         language |-> doc_language]

StandaloneNumber == "42"
PageThree == "Page 3"
ScopeOfWork == "1.1 Scope of work"
AnnualReport2024 == "ANNUAL REPORT 2024"
RevenueGrew == "revenue grew in the third quarter."

BlockTexts ==
    {StandaloneNumber, PageThree, ScopeOfWork, AnnualReport2024, RevenueGrew,
     ExecutiveSummary}

BlockSizes == {11000, 14000}

BlockGaps == {6, 200}

Languages == {"en", "unknown"}

\* the dict extract_text_with_metadata appends for a line: the page is the
\* 0-based page_num, the line sits gap below the line before it on its page
TextBlock(blks, text, page, font_size, is_bold, gap) ==
    LET y0 == IF blks # <<>> /\ blks[Len(blks)].page = page
              THEN blks[Len(blks)].bbox[4] + gap ELSE 72
    IN  [text |-> text, page |-> page, font_size |-> font_size,
         bbox |-> <<72, y0, 500, y0 + 14>>, is_bold |-> is_bold]

\* the block lists of at most n lines, page by page
RECURSIVE BlockLists(_)
BlockLists(n) ==
    IF n = 0 THEN {<<>>}
    ELSE LET shorter == BlockLists(n - 1)
         IN  shorter \cup
             {Append(l, TextBlock(l, t, p, sz, b, g)) :
                l \in {m \in shorter : Len(m) = n - 1},
                t \in BlockTexts, p \in 0..1, sz \in BlockSizes, b \in BOOLEAN,
                g \in BlockGaps}

PageOrdered(blks) ==
    \A j \in 2..Len(blks) : blks[j - 1].page <= blks[j].page

notPdfVars == <<olderVars, lineVars, spanVars, factVars>>

InitPdf ==
    /\ pc = "pdf"
    /\ text_blocks \in {l \in BlockLists(MaxBlocks) : PageOrdered(l)}
    /\ pdf_result = NoPdfResult
    /\ OlderIdle
    /\ LineIdle
    /\ SpanIdle
    /\ FactIdle

\* analyze_pdf(pdf_path)
AnalyzePdf ==
    /\ pc = "pdf"
    /\ \E doc_language \in Languages :
          pdf_result' = analyze_pdf(text_blocks, doc_language)
    /\ pc' = "pdf analyzed"
    /\ UNCHANGED <<text_blocks, notPdfVars>>

SpecPdf == InitPdf /\ [][AnalyzePdf]_vars

-----------------------------------------------------------------------------
(* Properties of the section builder and the heading classifier            *)

TagsOf(bs) == [i \in 1..Len(bs) |-> bs[i].tag]

IsHeadingBlock(b) == b.tag = "HEADING"

NotTitleBlock(b) == b.tag # "TITLE"

TextsOf(seq) == [i \in 1..Len(seq) |-> seq[i].text]

\* the texts of a sequence joined by single spaces, built from its last element
RECURSIVE SpaceJoined(_)
SpaceJoined(ts) ==
    IF ts = <<>> THEN ""
    ELSE IF Len(ts) = 1 THEN ts[1]
    ELSE SpaceJoined(SubSeq(ts, 1, Len(ts) - 1)) \o " " \o ts[Len(ts)]

\* C1: when a document has at least one HEADING-tagged line, its sections are as
\* many as its HEADING-tagged lines, and the i-th section's heading is the text of
\* the i-th HEADING-tagged line in document order.
C1_SectionPerHeading ==
    (pc = "done" /\ \E i \in 1..Len(blocks) : blocks[i].tag = "HEADING")
        => [i \in 1..Len(sections) |-> sections[i].heading]
              = TextsOf(SelectSeq(blocks, IsHeadingBlock))

C1_Witness ==
    /\ pc = "done"
    /\ \E i, j, k \in 1..Len(blocks) :
          /\ i < j /\ j < k
          /\ blocks[i].tag = "HEADING" /\ blocks[k].tag = "HEADING"
          /\ blocks[i].text # blocks[k].text
          /\ blocks[j].tag = "BODY"
    /\ Len(sections) = 2
    /\ sections[1].text # "" /\ sections[2].text = ""

\* C2: when a document has no HEADING-tagged line, exactly one section is built:
\* its heading is the document name, its page is 1 and its text is the texts of
\* all lines not tagged TITLE, in document order, joined by single spaces.
C2_FallbackSection ==
    (pc = "done" /\ \A i \in 1..Len(blocks) : blocks[i].tag # "HEADING")
        => sections = <<[doc |-> DocName,
                         heading |-> DocName,
                         page |-> 1,
                         text |-> SpaceJoined(TextsOf(SelectSeq(blocks, NotTitleBlock)))]>>

C2_Witness ==
    /\ pc = "done"
    /\ title # 0
    /\ Len(blocks) = 3
    /\ blocks[3].page = 2
    /\ \A i \in 1..Len(blocks) : blocks[i].tag # "HEADING"
    /\ Len(sections) = 1
    /\ sections[1].text = DashItem \o " " \o LongParagraph

\* C3: a readable document with zero text lines gives (None, []) and an empty
\* section list.
C3_EmptyDocumentNoSections ==
    (pc = "done" /\ raw = <<>>) => (title = 0 /\ blocks = <<>> /\ sections = <<>>)

\* a line that starts with a bullet glyph, or with digits, "." or ")" and whitespace
BulletPrefixed(t) ==
    \/ \E g \in {"@", "-", "*", "o"} : Len(t) >= 1 /\ SubSeq(t, 1, 1) = g
    \/ \E k \in 1..Len(t) :
          /\ \A d \in 1..k : SubSeq(t, d, d) \in DigitSet
          /\ k + 2 <= Len(t)
          /\ SubSeq(t, k + 1, k + 1) \in {".", ")"}
          /\ SubSeq(t, k + 2, k + 2) \in SpaceSet

\* C4: a bullet-prefixed line is never tagged HEADING, whatever its font rank,
\* boldness, uppercase ratio and gap above.
C4_BulletNeverHeading ==
    \A i \in 1..Len(blocks) :
        blocks[i].tag = "HEADING" => ~BulletPrefixed(blocks[i].text)

C4_Witness ==
    /\ pc = "build"
    /\ \E i, j \in 1..Len(blocks) :
          /\ blocks[i].text = NumberedScope
          /\ blocks[i].is_bold /\ blocks[i].font_rank = 0 /\ blocks[i].page = 2
          /\ blocks[i].tag = "BODY"
          /\ blocks[j].text = DashItem
          /\ ~blocks[j].is_bold /\ blocks[j].font_rank = 1 /\ GapAbove(blocks, j) = 1
          /\ blocks[j].tag = "BODY"

TitleCandidate(b) == b.page = 1 /\ b.caps_ratio[1] * 10 > 7 * b.caps_ratio[2]

\* C5: at most one block is tagged TITLE; the one that is lies on page 1, has an
\* uppercase ratio above 0.7 and the largest font size among such blocks.
C5_OneTitleLargestCaps ==
    /\ Cardinality({i \in 1..Len(blocks) : blocks[i].tag = "TITLE"}) <= 1
    /\ \A i \in 1..Len(blocks) :
          blocks[i].tag = "TITLE"
             => /\ TitleCandidate(blocks[i])
                /\ \A j \in 1..Len(blocks) :
                      TitleCandidate(blocks[j]) => blocks[j].font_size <= blocks[i].font_size

C5_Witness ==
    /\ pc = "build"
    /\ \E i, j \in 1..Len(blocks) :
          /\ i < j
          /\ TitleCandidate(blocks[i]) /\ TitleCandidate(blocks[j])
          /\ blocks[i].font_size > blocks[j].font_size
          /\ blocks[i].tag = "TITLE"
          /\ blocks[j].tag = "HEADING"

\* C9: in the round-trip scenario the first line is tagged HEADING, the three body
\* lines BODY, and one section is built: "Executive Summary" with the three body
\* lines as its text.
C9_RoundTrip ==
    pc = "done"
        => /\ TagsOf(blocks) = <<"HEADING", "BODY", "BODY", "BODY">>
           /\ sections = <<[doc |-> DocName,
                            heading |-> ExecutiveSummary,
                            page |-> 1,
                            text |-> SpaceJoined(<<raw[2].text, raw[3].text, raw[4].text>>)]>>

-----------------------------------------------------------------------------
(* Properties of the ranking                                               *)

\* the place of a section in the list passed to rank_sections
InputPlace(sec) ==
    CHOOSE i \in 1..Len(all_sections) :
        /\ all_sections[i].heading = sec.heading
        /\ all_sections[i].doc = sec.doc

\* C6: rank_sections sorts by descending score, keeps sections of equal score in
\* their input order, and sets importance_rank to the 1-based place in the
\* returned list.
C6_StableDescendingRank ==
    pc = "ranked"
        => /\ Len(ranked) = Len(all_sections)
           /\ {InputPlace(ranked[i]) : i \in 1..Len(ranked)} = 1..Len(all_sections)
           /\ \A i \in 1..Len(ranked) : ranked[i].importance_rank = i
           /\ \A i, j \in 1..Len(ranked) :
                 i < j => \/ ranked[i].score > ranked[j].score
                          \/ /\ ranked[i].score = ranked[j].score
                             /\ InputPlace(ranked[i]) < InputPlace(ranked[j])

C6_Witness ==
    /\ pc = "ranked"
    /\ Len(ranked) = 3
    /\ ranked[1].score > ranked[2].score
    /\ ranked[2].score = ranked[3].score
    /\ InputPlace(ranked[1]) = 3
    /\ InputPlace(ranked[2]) = 1
    /\ InputPlace(ranked[3]) = 2

\* the documents of the candidates of the call, in the order of all_sections
CandidateDocuments ==
    [k \in 1..Len(FilteredPlaces(extracted_sections, current_page)) |->
        extracted_sections[FilteredPlaces(extracted_sections, current_page)[k]].document]

CountOf(l, x) == Cardinality({k \in 1..Len(l) : l[k] = x})

\* C7: no entry returned by find_related_sections has a page_number equal to
\* current_page, whether the sections record their page under page_number or
\* only under page, with and without current-section text.
C7_NeverCurrentPage ==
    pc = "returned" => \A k \in 1..Len(related) : related[k].page_number # current_page

\* C8: with limit 3, current-section text given and the candidates coming from
\* documents A, A, A, B, B, C, the list returned holds at least one section of
\* B or C.
C8_Diversified ==
    (/\ pc = "returned"
     /\ current_section # ""
     /\ Len(CandidateDocuments) = 2 * Limit
     /\ CountOf(CandidateDocuments, "a.pdf") = 3
     /\ CountOf(CandidateDocuments, "b.pdf") = 2
     /\ CountOf(CandidateDocuments, "c.pdf") = 1)
        => \E k \in 1..Len(related) : related[k].document \in {"b.pdf", "c.pdf"}

Min(a, b) == IF a < b THEN a ELSE b

\* C10: extract_subsections returns min(number of candidate fragments,
\* max_snips) snippets, each a candidate fragment tagged with the document and
\* the page of the section, and "Alpha. Beta! Gamma?" gives the candidate
\* fragments "Alpha.", "Beta!", "Gamma?".
C10_SnippetCount ==
    pc = "snipped"
        => /\ Len(snippets) = Min(Len(parts), max_snips)
           /\ Len(snippets) <= max_snips
           /\ \A k \in 1..Len(snippets) :
                 /\ snippets[k].document = snip_section.doc
                 /\ snippets[k].page_number = snip_section.page
                 /\ \E i \in 1..Len(parts) : parts[i] = snippets[k].refined_text
           /\ snip_section.text = AlphaBetaGamma => parts = <<"Alpha.", "Beta!", "Gamma?">>

C10_Witness ==
    /\ pc = "snipped"
    /\ Len(parts) = 5
    /\ max_snips = 3
    /\ Len(snippets) = 3
    /\ snippets[1].refined_text = "Five."

\* the rounded font size of raw line i, in hundredths of a point
RoundedSize(i) == Round2(raw[i].font_size)

\* C14: font rank 0 goes to exactly the lines of the largest rounded font size
\* of the document, a larger rounded size has a smaller rank whatever pages the
\* lines are on, the ranks used are 0..n-1 for n distinct rounded sizes, and
\* lines of equal rounded size have equal rank.
C14_FontRankGlobal ==
    pc \in {"build", "done"}
        => /\ Len(blocks) = Len(raw)
           /\ \A i \in 1..Len(blocks) :
                 blocks[i].font_rank = 0
                    <=> \A j \in 1..Len(raw) : RoundedSize(j) <= RoundedSize(i)
           /\ \A i, j \in 1..Len(blocks) :
                 /\ RoundedSize(i) = RoundedSize(j)
                       => blocks[i].font_rank = blocks[j].font_rank
                 /\ RoundedSize(i) > RoundedSize(j)
                       => blocks[i].font_rank < blocks[j].font_rank
           /\ {blocks[i].font_rank : i \in 1..Len(blocks)}
                 = 0..(Cardinality({RoundedSize(i) : i \in 1..Len(raw)}) - 1)

C14_Witness ==
    /\ pc = "done"
    /\ Len(blocks) = 3
    /\ blocks[1].page = 1 /\ blocks[2].page = 1 /\ blocks[3].page = 2
    /\ raw[1].font_size = 11004 /\ raw[2].font_size = 11000 /\ raw[3].font_size = 18000
    /\ blocks[1].font_rank = 1 /\ blocks[2].font_rank = 1 /\ blocks[3].font_rank = 0

\* the places of the HEADING blocks, in order
HeadingPlaces(bs) ==
    SelectSeq([i \in 1..Len(bs) |-> i], LAMBDA i : bs[i].tag = "HEADING")

\* the pages of the BODY blocks between the k-th heading and the next one
BodyPagesOf(bs, hp, k) ==
    {bs[j].page : j \in {i \in 1..Len(bs) :
                            /\ bs[i].tag = "BODY"
                            /\ i > hp[k]
                            /\ (k = Len(hp) \/ i < hp[k + 1])}}

\* C20: in a document with at least one heading, the page of a section is the
\* smallest page of its body lines when it has any, and the page of its heading
\* when it has none.
C20_RepresentativePage ==
    (pc = "done" /\ HeadingPlaces(blocks) # <<>>)
        => /\ Len(sections) = Len(HeadingPlaces(blocks))
           /\ \A k \in 1..Len(sections) :
                 sections[k].page =
                    IF BodyPagesOf(blocks, HeadingPlaces(blocks), k) # {}
                    THEN SetMin(BodyPagesOf(blocks, HeadingPlaces(blocks), k))
                    ELSE blocks[HeadingPlaces(blocks)[k]].page

\* C16: whenever extract_outline_blocks has returned or raised, the document it
\* opened has been closed.
C16_HandleReleased ==
    pc \in {"build", "done", "raised"} => doc_handle = "closed"

\* section sec, whatever score and rank it was given, is in list l
HoldsSection(l, sec) ==
    \E k \in 1..Len(l) :
        /\ l[k].doc = sec.doc /\ l[k].heading = sec.heading
        /\ l[k].page = sec.page /\ l[k].text = sec.text

\* section sec is an entry of the extracted_sections of the output
ReturnsSection(sec) ==
    \E k \in 1..Len(out.extracted_sections) :
        /\ out.extracted_sections[k].document = sec.doc
        /\ out.extracted_sections[k].section_title = sec.heading
        /\ out.extracted_sections[k].page_number = sec.page

\* C11: a document that fails never aborts the batch: every section built from a
\* document that did not fail, before or after a failing one, is in the list
\* that is ranked, and is returned unless more than topk_sections were built.
C11_FailuresIsolated ==
    pc \in {"related", "returned"}
        => \A i \in 1..Len(pdf_paths) :
              Files[pdf_paths[i]].readable
                 => \A j \in 1..Len(FileSections[pdf_paths[i]]) :
                       /\ HoldsSection(all_sections, FileSections[pdf_paths[i]][j])
                       /\ HoldsSection(ranked, FileSections[pdf_paths[i]][j])
                       /\ Len(all_sections) <= topk_sections
                             => ReturnsSection(FileSections[pdf_paths[i]][j])

C11_Witness ==
    /\ pc = "related"
    /\ pdf_paths = <<"uploads/bad.pdf", "uploads/c.pdf">>
    /\ Len(ranked) = 2
    /\ Len(out.extracted_sections) = 2

\* C12: find_related_sections returns the empty list when it is given no section
\* or only sections of current_page, and process_documents_intelligence returns
\* empty extracted_sections and subsection_analysis when no section was built.
C12_EmptyNotFailure ==
    /\ (pc = "returned"
        /\ \A k \in 1..Len(extracted_sections) : PageKey(extracted_sections[k]) = current_page)
          => related = <<>>
    /\ (pc \in {"related", "returned"} /\ all_sections = <<>>)
          => /\ out.extracted_sections = <<>>
             /\ out.subsection_analysis = <<>>

C12_Witness ==
    /\ pc = "returned"
    /\ pdf_paths = <<"uploads/bad.pdf", "uploads/b.pdf">>
    /\ Len(extracted_sections) = 1
    /\ extracted_sections[1].page_number = current_page
    /\ related = <<>>

\* C13: extracted_sections of the output has min(N, K) entries for N sections
\* built and top-K setting K, with importance_rank 1, 2, ... in list order and
\* relevance_score never increasing along the list.
C13_TopK ==
    pc \in {"related", "returned"}
        => /\ Len(out.extracted_sections) = Min(Len(all_sections), topk_sections)
           /\ \A k \in 1..Len(out.extracted_sections) :
                 out.extracted_sections[k].importance_rank = k
           /\ \A k \in 1..(Len(out.extracted_sections) - 1) :
                 out.extracted_sections[k].relevance_score
                    >= out.extracted_sections[k + 1].relevance_score

C13_Witness ==
    /\ pc = "related"
    /\ Len(all_sections) = 3
    /\ topk_sections = 2
    /\ Len(out.extracted_sections) = 2
    /\ out.extracted_sections[1].relevance_score > out.extracted_sections[2].relevance_score
    /\ out.extracted_sections[1].section_title = all_sections[3].heading

\* C17: metadata.input_documents of every output is the list of the basenames of
\* pdf_paths, in order, also when no section could be built.
C17_InputDocuments ==
    pc \in {"related", "returned"} => out.metadata.input_documents = Basenames(pdf_paths)

\* C18: two evaluations of generate_enhanced_relevance_explanation with equal
\* arguments return the same string, whatever order the keyword sets are
\* enumerated in.
C18_Deterministic ==
    pc = "explained again" => explanation_again = explanation

\* C19: the cache is keyed by (document ids, persona, job): the cached result a
\* related-sections request reads is one of a request with the same triple,
\* never the result of a request whose triple differs.
C19_CacheKeyedByTriple ==
    pc = "related read" => analysis_result = AnalysisOf(request)

\* the score list l gives the section of the document and heading of sec
ScoreIn(l, sec) ==
    l[CHOOSE k \in 1..Len(l) : l[k].doc = sec.doc /\ l[k].heading = sec.heading].score

-----------------------------------------------------------------------------
(* Properties of the section texts                                         *)

\* the texts of the BODY blocks between the k-th heading and the next one, in order
BodyTextsOf(bs, hp, k) ==
    TextsOf(SelectSeq(SubSeq(bs, hp[k] + 1, IF k = Len(hp) THEN Len(bs) ELSE hp[k + 1] - 1),
                      LAMBDA b : b.tag = "BODY"))

\* C21: in a document with at least one HEADING line there is one section per
\* heading, and the text of each is exactly the texts of the BODY lines between
\* its heading and the next HEADING line, in order, joined by single spaces; the
\* TITLE line and the BODY lines before the first heading are in no section.
C21_SectionText ==
    (pc = "done" /\ HeadingPlaces(blocks) # <<>>)
        => /\ Len(sections) = Len(HeadingPlaces(blocks))
           /\ \A k \in 1..Len(sections) :
                 sections[k].text = SpaceJoined(BodyTextsOf(blocks, HeadingPlaces(blocks), k))

C21_Witness ==
    /\ pc = "done"
    /\ Len(blocks) = 3
    /\ blocks[1].tag = "BODY" /\ blocks[2].tag = "HEADING" /\ blocks[3].tag = "BODY"
    /\ blocks[1].text # blocks[3].text
    /\ sections[1].text = blocks[3].text

-----------------------------------------------------------------------------
(* Properties of find_related_sections without current-section text        *)

\* the places in l of the sections whose page is not cp
CandidatePlaces(l, cp) == {i \in 1..Len(l) : PageKey(l[i]) # cp}

\* the relevance score the analysis run gave the section at place i, 0 if none
StoredScore(l, i) == IF "relevance_score" \in l[i].keys THEN l[i].relevance_score ELSE 0

\* the section at place i comes before the one at place j: a higher stored score,
\* or the same score and an earlier place
Precedes(l, i, j) ==
    \/ StoredScore(l, i) > StoredScore(l, j)
    \/ StoredScore(l, i) = StoredScore(l, j) /\ i < j

\* entry e of the result is the section at place i
IsEntryOf(e, l, i) ==
    /\ e.document = (IF "document" \in l[i].keys THEN l[i].document ELSE "Unknown Document")
    /\ e.section_title
          = (IF "section_title" \in l[i].keys THEN l[i].section_title ELSE "Unknown Section")
    /\ e.page_number = (IF "page_number" \in l[i].keys THEN l[i].page_number ELSE 1)

\* C22: called without current-section text, find_related_sections returns the
\* first `limit` of the sections whose page is not current_page, taken in
\* descending order of stored relevance_score with ties in input order, and
\* never more than `limit` entries.
C22_FallbackOrder ==
    (pc = "returned" /\ current_section = "")
        => /\ Len(related) = Min(Limit, Cardinality(CandidatePlaces(extracted_sections, current_page)))
           /\ \E sel \in [1..Len(related) -> CandidatePlaces(extracted_sections, current_page)] :
                 /\ \A k \in 1..Len(related) : IsEntryOf(related[k], extracted_sections, sel[k])
                 /\ \A k \in 1..(Len(related) - 1) :
                       Precedes(extracted_sections, sel[k], sel[k + 1])
                 /\ \A c \in CandidatePlaces(extracted_sections, current_page) :
                       \/ \E k \in 1..Len(related) : sel[k] = c
                       \/ \A k \in 1..Len(related) : Precedes(extracted_sections, sel[k], c)

C22_Witness ==
    /\ pc = "returned"
    /\ current_section = ""
    /\ current_page = 1
    /\ extracted_sections = TiedAndOneOnPageOne
    /\ Len(related) = 3
    /\ related[1].section_title = "Methods"
    /\ related[2].section_title = "Results"
    /\ related[3].section_title = "Overview"

-----------------------------------------------------------------------------
(* Properties of _score_line                                               *)

\* C23 as claimed: the font-rank term is strictly decreasing over ranks 0..6,
\* positive at rank 6, and nothing above rank 6.
C23_RankBonusStrict ==
    (pc = "line scored" /\ ~_is_bullet(line.text))
        => /\ \A r \in 0..5 : rank_scores[r] > rank_scores[r + 1]
           /\ rank_scores[6] > rank_scores[7]
           /\ \A r \in 7..MaxRank : rank_scores[r] = rank_scores[7]

\* C23 as the code has it: the font-rank term is strictly decreasing over ranks
\* 0..5, the same at ranks 5 and 6, positive there, and nothing above rank 6.
C23_RankBonusTiedAtSix ==
    (pc = "line scored" /\ ~_is_bullet(line.text))
        => /\ \A r \in 0..4 : rank_scores[r] > rank_scores[r + 1]
           /\ rank_scores[5] = rank_scores[6]
           /\ rank_scores[6] > rank_scores[7]
           /\ \A r \in 7..MaxRank : rank_scores[r] = rank_scores[7]

C23_Witness ==
    /\ pc = "line scored"
    /\ line.text = ExecutiveSummary
    /\ rank_scores[0] - rank_scores[7] = 20
    /\ rank_scores[4] - rank_scores[7] = 8
    /\ rank_scores[6] - rank_scores[7] = 5

\* _score_line of the line at font rank r less its structural-pattern term
ScoreWithoutPattern(r) ==
    TextScore(line.text, _caps_ratio(line.text)) - PatternBonus(line.text)
        + RankBonus(r) + (IF line.is_bold THEN 15 ELSE 0) + GapBonus(line.gap_above)

\* what the structural-pattern term adds to the score of the line at font rank r
PatternShare(r) == rank_scores[r] - ScoreWithoutPattern(r)

\* C24: a line that begins with "1." or "1.1" and a space has the numbered
\* structural-pattern bonus in its heading score, and that bonus is the largest
\* of the structural-pattern bonuses: numbered > lettered = roman > parenthesized.
C24_NumberedBonus ==
    pc = "line scored"
        => \A r \in 0..MaxRank :
              /\ line.text \in {NumberedScope, NumberedSubsection} => PatternShare(r) = 15
              /\ line.text = LetteredScope => PatternShare(r) = 12
              /\ line.text = RomanScope => PatternShare(r) = 12
              /\ line.text = ParenScope => PatternShare(r) = 10

\* the span indicates bold on its own: a bold-family keyword in its font name,
\* bit 4 of its flags, or a weight of 600 or more
IndicatesBold(sp) ==
    \/ \E word \in bold_indicators :
          \E i \in 1..Len(sp.font) :
             i + Len(word) - 1 <= Len(sp.font)
                /\ lower(SubSeq(sp.font, i, i + Len(word) - 1)) = word
    \/ (sp.flags \div 16) % 2 = 1
    \/ sp.weight >= 600

\* C25: a line _extract_page_lines returns is marked bold exactly when at least
\* one of its spans indicates bold on its own; a line none of whose spans does
\* is never marked bold, whatever the number of its spans.
C25_BoldIffSomeSpan ==
    (pc = "page read" /\ page_lines # <<>>)
        => (page_lines[1].is_bold <=> \E n \in 1..Len(spans) : IndicatesBold(spans[n]))

-----------------------------------------------------------------------------
(* Properties of the snippet fragments                                     *)

\* C26: no candidate fragment handed to the scoring and no snippet returned by
\* extract_subsections has an empty refined_text, also when a piece of the text
\* is a bullet glyph and nothing else.
C26_NoEmptyFragment ==
    pc = "snipped"
        => /\ \A i \in 1..Len(parts) : parts[i] # ""
           /\ \A k \in 1..Len(snippets) : snippets[k].refined_text # ""

-----------------------------------------------------------------------------
(* Properties of successive /related-sections requests                     *)

\* the qualifier in the explanation of a result entry: line 313 reads the score
\* that line 290 reports
QualifierOf(score) == Qualifier([relevance_score |-> score])

\* C27: a call without current-section text reports for each section it returns
\* the relevance_score the analysis run stored for it, and the qualifier that
\* goes with that score, whatever calls were made before it on the same cached
\* list.
C27_StoredScoreReported ==
    (pc \in {"returned", "returned again"} /\ current_section = "")
        => \A k \in 1..Len(related) :
              \E i \in CandidatePlaces(extracted_sections, current_page) :
                 /\ IsEntryOf(related[k], extracted_sections, i)
                 /\ related[k].relevance_score = StoredScore(extracted_sections, i)
                 /\ QualifierOf(related[k].relevance_score)
                       = QualifierOf(StoredScore(extracted_sections, i))

-----------------------------------------------------------------------------
(* Properties of the document store                                        *)

\* C28: once delete_document(d) has succeeded, no /related-sections request that
\* names d is answered with sections: it is rejected as not found, whether or
\* not an analysis for its document ids, persona and job was cached before.
C28_DeletedNeverServed ==
    pc = "related read"
        => \A i \in 1..Len(request.document_ids) : request.document_ids[i] \in DOMAIN store

-----------------------------------------------------------------------------
(* Properties of the fact cache                                            *)

\* C29: whatever way concurrent generate_fact_for_current_page calls for one
\* page interleave, the cache holds at most one fact for the page, and a call
\* that returns while a fact is cached for its page returns that fact.
C29_OneFactPerPage ==
    \A document_id \in FactDocIds, page_number \in FactPages :
        /\ Len(get_facts_for_page(page_facts_cache, document_id, page_number)) <= 1
        /\ \A c \in Callers :
              (/\ callers[c].at = "returned"
               /\ callers[c].document_id = document_id
               /\ callers[c].page_number = page_number
               /\ callers[c].ret # NoFact)
                 => callers[c].ret
                       = get_facts_for_page(page_facts_cache, document_id, page_number)[1]

-----------------------------------------------------------------------------
(* Properties of the PDF outline                                           *)

\* C30: every outline entry analyze_pdf returns has a level among H1, H2, H3 and
\* H4 and a 1-based page number (page >= 1), the entries detect_headings made
\* and the single entry that stands in for an empty outline alike.
C30_LevelAndPage ==
    pc = "pdf analyzed"
        => \A k \in 1..Len(pdf_result.outline) :
              /\ pdf_result.outline[k].level \in {"H1", "H2", "H3", "H4"}
              /\ pdf_result.outline[k].page >= 1

====
